---------------------------- MODULE Spec2Model ----------------------------
(***************************************************************************)
(* Online repair staging and atomic extent-exchange engine (XFS).          *)
(*                                                                         *)
(* Part I   (SpecSxi):   swapext intent / done log items, the deferred     *)
(*                       chunked exchange and its log recovery             *)
(*                       (fs/xfs/xfs_swapext_item.c).                      *)
(* Part II  (SpecScrub): the scrub/repair dispatcher                       *)
(*                       (fs/xfs/scrub/scrub.c, xfs_scrub_metadata).       *)
(* Part III (SpecScrubv): vectored scrub and its barriers                  *)
(*                       (fs/xfs/scrub/scrub.c, xfs_scrubv_metadata).      *)
(* Part IV  (SpecXchg):  exchanging ranges of two files                    *)
(*                       (fs/xfs/xfs_xchgrange.c, xfs_xchg_range).         *)
(* Part V   (SpecXfile): the xfile byte store                              *)
(*                       (fs/xfs/scrub/xfile.c, xfile_pread/xfile_pwrite). *)
(* Part VI  (SpecXfbtree): the in-memory btree in an xfile                 *)
(*                       (fs/xfs/scrub/xfbtree.c).                         *)
(* Part VII (SpecXbitmap): the interval bitmap (fs/xfs/scrub/bitmap.h).    *)
(* Part VIII (SpecSxiRef): the reference count of the intent log items     *)
(*                       (fs/xfs/xfs_swapext_item.c).                      *)
(* Part IX  (SpecCancel): the loops of scrub and repair and the fatal      *)
(*                       signal (fs/xfs/scrub/metapath.c, rtbitmap.c,      *)
(*                       rtbitmap_repair.c).                               *)
(***************************************************************************)
EXTENDS Integers, Sequences, FiniteSets, Bags, TLC

(***************************************************************************)
(* Bounds of the model.                                                    *)
(***************************************************************************)
\* largest blockcount of an exchange request
MaxBlocks == 3
\* crashes / shutdowns per behaviour
MaxCrashes == 2
\* entries of a vectored scrub request
MaxVecs == 3
\* largest size of a file in bytes
MaxFileBytes == 4
\* exchange calls per behaviour
MaxCalls == 2
\* changes another task makes to file2 per behaviour
MaxTouches == 1
\* failures of the environment (allocation, I/O) per behaviour
MaxFaults == 1
\* calls on the xfile per behaviour
MaxXfileOps == 3
\* largest position and largest count a caller passes to the xfile
MaxXfilePos == 2
MaxXfileCount == 5
\* keys of the in-memory btree
MaxKeys == 4
\* largest position of the interval bitmap
MaxBit == 6
\* intent log items allocated per behaviour
MaxLogItems == 3
\* mappings of a file that a loop scans, failed attempts to take a lock
MaxScan == 3

\* the constants of the xfile, scaled down
PAGE_SIZE == 2
MAX_RW_COUNT == 4
S_MAXBYTES == 5
XFILE_CACHE_ENTRIES == 2
\* the head of the in-memory btree and its first leaf
XFBTREE_HEAD_BLOCK == 0
XFBTREE_INIT_LEAF_BLOCK == 1
\* the null block pointer
NULLFSBLOCK == -1
\* maxrecs[0] of the in-memory btree, scaled down
XfbLeafMaxrecs == 2
SXI_INIT_REFCOUNT == 2
\* bytes of a filesystem block, the allocation unit of the two files
XchgBlockSize == 2

\* concurrently running exchange operations, each on its own pair of files
Ops == {"A", "B"}

VARIABLES
    mode,       \* "running" | "crashed" | "recover" | "failed" (mount refused)
    log,        \* the on-disk log: sequence of committed SXI / SXD records
    nswap,      \* per op: bag of <<off1, off2>> block pairs swapped on disk
    req,        \* per op: the request it was started with (history)
    op,         \* per op: in-core deferred work (pc, sxi, dfp_intent)
    tp,         \* per op: its open transaction (log items, mappings swapped)
    ail,        \* recovered intent items: set of [lsn, fmt]
    xstate,     \* per op: Pending / InProgress / Done / Aborted (history)
    rerr,       \* return value of the last recovery step
    crashes     \* crashes and shutdowns so far

sxiVars == <<mode, log, nswap, req, op, tp, ail, xstate, rerr,
            crashes>>

VARIABLES
    pc,         \* position of the scrub call in xfs_scrub_metadata
    sm_flags,   \* sm->sm_flags: input and output flags of the request
    sc,         \* struct xfs_scrub: flags, transaction, resources held
    error,      \* the local variable error; the return value at "returned"
    mp,         \* the mount: shutdown, norecovery, crc, readonly
    disk,       \* the checked structure on disk: "clean" | "corrupt"
    disk0,      \* disk when the call started (history)
    writers,    \* write (freeze) protection references the call holds
    hist        \* history of the call: counters of what it has done

scrubVars == <<pc, sm_flags, sc, error, mp, disk, disk0, writers, hist>>

VARIABLES
    svh_vecs,   \* vhead->svh_vecs: sequence of [type, flags, ret, reserved]
    vi,         \* the loop index of xfs_scrubv_metadata, counted from 1
    vpc,        \* "idle" | "run" | "returned"
    verror,     \* the return value of xfs_scrubv_metadata
    vran,       \* entries handed to xfs_scrub_metadata (history)
    vbar        \* barrier entries the loop has come to (history)

scrubvVars == <<svh_vecs, vi, vpc, verror, vran, vbar>>

VARIABLES
    xpc,        \* position of the exchange in xfs_exch_range / xfs_xchg_range
    fxr,        \* struct xfs_exch_range: the request being served
    xf,         \* the two files: size, block map, ctime, mtime, privileges
    xf0,        \* the files when the call started (history)
    xf00,       \* the files when the first call started (history)
    xmp,        \* the mount: log swapext feature, bigtime, rmap/reflink, quota
    xtp,        \* the transaction of xfs_xchg_range: "none" | "open"
    xilock,     \* the exchange holds the ILOCK of both files
    xiolock,    \* the exchange holds the IOLOCK and MMAPLOCK of both files
    xflags,     \* xchg_flags (XFS_XCHG_RANGE_LOGGED)
    xreq,       \* struct xfs_swapext_req made of the request
    retried,    \* the local variable retried of xfs_xchg_range
    xerror,     \* the return value at "returned"
    now,        \* the clock the timestamps are taken from
    xhist       \* history of the call: counters of what it has done

xchgVars == <<xpc, fxr, xf, xf0, xf00, xmp, xtp, xilock, xiolock, xflags,
             xreq, retried, xerror, now, xhist>>

VARIABLES
    xfile,          \* struct xfile: the pages of the shmem file, i_size, cache
    xfile_last,     \* the last call: operation, arguments, result, buffer read
    xfile_written,  \* the last complete write no later call has overwritten
    xfile_nops,     \* calls made so far
    xfile_nfault,   \* calls in which a page could not be got or put
    xfile_touched,  \* the positions that calls of xfile_pwrite covered
    xfile_ref       \* an xfile without cache that gets the same calls

xfileVars == <<xfile, xfile_last, xfile_written, xfile_nops,
              xfile_nfault, xfile_touched, xfile_ref>>

VARIABLES
    xfbt,           \* struct xfbtree: freespace, highest_offset, xfile size
    xfb_blocks,     \* the btree blocks as the buffers of the buftarg hold them
    xfb_store,      \* the btree blocks as the xfile holds them
    xfb_items,      \* tp->t_items: the buffers of the transaction, in order
    xfb_tp,         \* tp: the log items of others, XFS_TRANS_DIRTY of t_flags
    xfb_pc,         \* "open" | "damaged" | "failed"
    xfb_hist        \* history: blocks handed out, keys inserted, last commit

xfbVars ==
    <<xfbt, xfb_blocks, xfb_store, xfb_items, xfb_tp, xfb_pc, xfb_hist>>

VARIABLES
    xbm,            \* struct xbitmap: the intervals of the tree
    xbm_ref,        \* reference model: the set of positions that are set
    xbm_last        \* the last call and the number of intervals before it

xbmVars == <<xbm, xbm_ref, xbm_last>>

VARIABLES
    sxi_lip         \* the intent log items: refcount, AIL, who holds them

sxirefVars == <<sxi_lip>>

VARIABLES
    ck_fn,          \* the function whose loop runs
    ck_off,         \* the position of the scan, the attempts made so far
    ck_len,         \* the end of the scan, the attempts that can fail
    ck_sig,         \* fatal_signal_pending(current)
    ck_pc,          \* "loop" | "step_done" | "evaluate" | "out_teardown" |
                    \* "returned"
    ck_error,       \* the error of the function
    ck_hist         \* history: turns begun with the signal pending

ckVars == <<ck_fn, ck_off, ck_len, ck_sig, ck_pc, ck_error, ck_hist>>

\* what the actions of each part leave alone
sxiOther == <<scrubVars, scrubvVars, xchgVars, xfileVars, xfbVars, xbmVars,
              sxirefVars, ckVars>>
scrubOther == <<sxiVars, scrubvVars, xchgVars, xfileVars, xfbVars, xbmVars,
                sxirefVars, ckVars>>
scrubvOther == <<sxiVars, scrubVars, xchgVars, xfileVars, xfbVars, xbmVars,
                 sxirefVars, ckVars>>
xchgOther == <<sxiVars, scrubVars, scrubvVars, xfileVars, xfbVars, xbmVars,
               sxirefVars, ckVars>>
xfileOther == <<sxiVars, scrubVars, scrubvVars, xchgVars, xfbVars, xbmVars,
                sxirefVars, ckVars>>
xfbOther == <<sxiVars, scrubVars, scrubvVars, xchgVars, xfileVars, xbmVars,
              sxirefVars, ckVars>>
xbmOther == <<sxiVars, scrubVars, scrubvVars, xchgVars, xfileVars, xfbVars,
              sxirefVars, ckVars>>
sxirefOther == <<sxiVars, scrubVars, scrubvVars, xchgVars, xfileVars, xfbVars,
                  xbmVars, ckVars>>
ckOther == <<sxiVars, scrubVars, scrubvVars, xchgVars, xfileVars, xfbVars,
             xbmVars, sxirefVars>>

(***************************************************************************)
(* On-disk formats and helpers outside fs/xfs/xfs_swapext_item.c.          *)
(***************************************************************************)
XFS_MAX_FILEOFF == 15

XFS_SWAP_EXT_FLAGS == {"ATTR_FORK", "SET_SIZES", "INO1_WRITTEN"}

Ino1(k) == IF k = "A" THEN 1 ELSE 3
Ino2(k) == Ino1(k) + 1
OpOfIno(i) == CHOOSE k \in Ops : Ino1(k) = i

xfs_verify_ino(ino) == ino \in {Ino1(k) : k \in Ops} \cup {Ino2(k) : k \in Ops}

xfs_verify_fileoff(off) == off >= 0 /\ off <= XFS_MAX_FILEOFF

xfs_verify_fileext(off, len) ==
    /\ ~(off + len <= off)
    /\ xfs_verify_fileoff(off)
    /\ xfs_verify_fileoff(off + len - 1)

\* the log-incompat feature bit; the mount in this model always has it
xfs_sb_version_haslogswapext == TRUE

NULL == [type |-> "NULL"]
IsNull(it) == it.type = "NULL"

NoSxi == [ip1 |-> 0, ip2 |-> 0, startoff1 |-> 0, startoff2 |-> 0,
          blockcount |-> 0, isize1 |-> 0, isize2 |-> 0, flags |-> {},
          op_flags |-> {}]

NoTp == [items |-> <<>>, swaps |-> {}]

IdleOp == [pc |-> "idle", sxi |-> NoSxi, intent |-> NULL, done |-> NULL,
           ret |-> "none"]

\* the requests an exchange may be started with: operation A with any
\* length, logged or not; operation B a fixed logged two-block exchange
Requests(k) ==
    IF k = "A"
    THEN {[startoff1 |-> 1, startoff2 |-> 2, blockcount |-> b,
           flags |-> {"SET_SIZES"}, logged |-> l] :
              b \in 1..MaxBlocks, l \in BOOLEAN}
    ELSE {[startoff1 |-> 0, startoff2 |-> 0, blockcount |-> 2,
           flags |-> {}, logged |-> TRUE]}

NoReq == [startoff1 |-> 0, startoff2 |-> 0, blockcount |-> 0,
          flags |-> {}, logged |-> FALSE]

\* xfs_swapext_init_intent: the in-core intent of a request
xfs_swapext_init_intent(k, r) ==
    [ip1 |-> Ino1(k), ip2 |-> Ino2(k),
     startoff1 |-> r.startoff1, startoff2 |-> r.startoff2,
     blockcount |-> r.blockcount,
     isize1 |-> IF "SET_SIZES" \in r.flags THEN 4 ELSE -1,
     isize2 |-> IF "SET_SIZES" \in r.flags THEN 5 ELSE -1,
     flags |-> r.flags,
     op_flags |-> IF r.logged THEN {"LOGGED"} ELSE {}]

\* xfs_swapext_finish_one: swap one extent of n blocks, advance the intent
SwappedPairs(sxi, n) ==
    {<<sxi.startoff1 + j, sxi.startoff2 + j>> : j \in 0..(n - 1)}

xfs_swapext_finish_one(sxi, n) ==
    [sxi EXCEPT !.startoff1 = @ + n, !.startoff2 = @ + n,
                !.blockcount = @ - n]

\* the extent lengths one step may find mapped at the intent's offsets
ExtentLens(sxi) == 1..sxi.blockcount

(***************************************************************************)
(* fs/xfs/xfs_swapext_item.c                                               *)
(***************************************************************************)
\* faulty variant of xfs_swapext_create_intent: the second file's offset is
\* copied from the first file's
create_intent_startoff1_twice(id, sxi) ==
    IF "LOGGED" \notin sxi.op_flags
    THEN NULL
    ELSE [type |-> "SXI", id |-> id, pad |-> 0,
          inode1 |-> sxi.ip1, inode2 |-> sxi.ip2,
          startoff1 |-> sxi.startoff1, startoff2 |-> sxi.startoff1,
          blockcount |-> sxi.blockcount,
          isize1 |-> sxi.isize1, isize2 |-> sxi.isize2,
          flags |-> sxi.flags]

\* xfs_sxi_init + the copy in xfs_swapext_create_intent
xfs_swapext_create_intent(id, sxi) ==
    IF "LOGGED" \notin sxi.op_flags
    THEN NULL
    ELSE [type |-> "SXI", id |-> id, pad |-> 0,
          inode1 |-> sxi.ip1, inode2 |-> sxi.ip2,
          startoff1 |-> sxi.startoff1, startoff2 |-> sxi.startoff2,
          blockcount |-> sxi.blockcount,
          isize1 |-> sxi.isize1, isize2 |-> sxi.isize2,
          flags |-> sxi.flags]

\* xfs_trans_get_sxd
xfs_trans_get_sxd(intent) ==
    [type |-> "SXD", id |-> intent.id, pad |-> 0]

\* faulty variant of xfs_swapext_create_done: no done item is ever made
create_done_never(intent) == NULL

xfs_swapext_create_done(intent) ==
    IF IsNull(intent) THEN NULL ELSE xfs_trans_get_sxd(intent)

\* the items a transaction logs, NULL ones left out
Items(s) == SelectSeq(s, LAMBDA it : it.type # "NULL")

\* faulty variant of xfs_sxi_validate: the second inode number is not checked
sxi_validate_without_inode2(fmt) ==
    /\ xfs_sb_version_haslogswapext
    /\ fmt.pad = 0
    /\ fmt.flags \subseteq XFS_SWAP_EXT_FLAGS
    /\ xfs_verify_ino(fmt.inode1)
    /\ ~("SET_SIZES" \in fmt.flags /\ (fmt.isize1 < 0 \/ fmt.isize2 < 0))
    /\ xfs_verify_fileext(fmt.startoff1, fmt.blockcount)
    /\ xfs_verify_fileext(fmt.startoff2, fmt.blockcount)

xfs_sxi_validate(fmt) ==
    /\ xfs_sb_version_haslogswapext
    /\ fmt.pad = 0
    /\ fmt.flags \subseteq XFS_SWAP_EXT_FLAGS
    /\ xfs_verify_ino(fmt.inode1)
    /\ xfs_verify_ino(fmt.inode2)
    /\ ~("SET_SIZES" \in fmt.flags /\ (fmt.isize1 < 0 \/ fmt.isize2 < 0))
    /\ xfs_verify_fileext(fmt.startoff1, fmt.blockcount)
    /\ xfs_verify_fileext(fmt.startoff2, fmt.blockcount)

\* xfs_sxi_item_recover_intent: the request and in-core intent rebuilt
\* from the logged extent
xfs_sxi_item_recover_intent(sx) ==
    [ip1 |-> sx.inode1, ip2 |-> sx.inode2,
     startoff1 |-> sx.startoff1, startoff2 |-> sx.startoff2,
     blockcount |-> sx.blockcount,
     isize1 |-> sx.isize1, isize2 |-> sx.isize2,
     flags |-> sx.flags \cap {"ATTR_FORK", "SET_SIZES", "INO1_WRITTEN"},
     op_flags |-> {"LOGGED"}]

\* faulty variant of xfs_sxi_item_match: any intent matches
sxi_item_match_any(fmt, intent_id) == TRUE

xfs_sxi_item_match(fmt, intent_id) == fmt.id = intent_id

\* xlog_recover_release_intent: release the first AIL item that matches
MatchingItems(a, id) == {it \in a : xfs_sxi_item_match(it.fmt, id)}

FirstItem(s) == CHOOSE it \in s : \A o \in s : it.lsn <= o.lsn

xlog_recover_release_intent(a, id) ==
    IF MatchingItems(a, id) = {} THEN a
    ELSE a \ {FirstItem(MatchingItems(a, id))}

\* xfs_sxi_init: sxi_id is the address of the new log item.  It differs from
\* that of every item still allocated; the model also keeps it apart from
\* the ids the log still names (no address is handed out twice)
UsedIds ==
    {log[i].id : i \in 1..Len(log)}
    \cup UNION {{tp[k].items[i].id : i \in 1..Len(tp[k].items)} : k \in Ops}
    \cup {op[k].intent.id : k \in {j \in Ops : ~IsNull(op[j].intent)}}

xfs_sxi_init == CHOOSE id \in 1..(Cardinality(UsedIds) + 1) : id \notin UsedIds

(***************************************************************************)
(* Part II data: struct xfs_scrub and the history of one scrub call.       *)
(***************************************************************************)
\* a zeroed struct xfs_scrub (kzalloc): no flags, no transaction, nothing held
NoSc == [flags |-> {}, tp |-> "none", held |-> {}]

\* nothing done yet in this call
NoHist ==
    [ctx |-> FALSE, retries |-> 0, ntry |-> 0, ndrain |-> 0,
     nteardown |-> 0, nrepair |-> 0, nalloc |-> 0, ncommit |-> 0,
     ncancel |-> 0,
     everheld |-> FALSE, evaluated |-> FALSE, failures |-> 0,
     rescrub |-> "no", refound |-> {}, after_fix |-> FALSE,
     nsetup |-> 0, nagain |-> 0, scrubbad |-> FALSE, scrubstop |-> FALSE]

\* no scrub call is running
ScrubQuiet ==
    /\ pc = "idle"
    /\ sm_flags = {}
    /\ sc = NoSc
    /\ error = "OK"
    /\ mp = [shutdown |-> FALSE, norecovery |-> FALSE, crc |-> TRUE,
             readonly |-> FALSE]
    /\ disk = "clean"
    /\ disk0 = "clean"
    /\ writers = 0
    /\ hist = NoHist

\* no vectored scrub call is running
ScrubvQuiet ==
    /\ svh_vecs = <<>>
    /\ vi = 1
    /\ vpc = "idle"
    /\ verror = "OK"
    /\ vran = {}
    /\ vbar = {}

(***************************************************************************)
(* Part IV: exchanging ranges of two files (fs/xfs/xfs_xchgrange.c).       *)
(* Two distinct regular, non-realtime files on one mount; the allocation   *)
(* unit is one filesystem block of XchgBlockSize bytes.                    *)
(***************************************************************************)
Max(a, b) == IF a >= b THEN a ELSE b

IS_ALIGNED(x, a) == x % a = 0

ALIGN(x, a) == ((x + a - 1) \div a) * a

\* x & ~blkmask
RoundDown(x, a) == (x \div a) * a

\* bytes to filesystem blocks, truncating and rounding up
XFS_B_TO_FSBT(b) == b \div XchgBlockSize

XFS_B_TO_FSB(b) == (b + XchgBlockSize - 1) \div XchgBlockSize

\* block indices of a file (more than a file of MaxFileBytes needs: an
\* exchange to EOF may reach past the end of the shorter file)
FileBlocks == 0..(2 * XFS_B_TO_FSB(MaxFileBytes) - 1)

\* a file of the given size: its blocks below EOF are mapped, each to a
\* block of its own; reading a hole gives zeroes.  privs: the file has a
\* set-uid or set-gid bit or security attributes
NewFile(ino, name, size, special, privs) ==
    [ino |-> ino, size |-> size,
     map |-> [b \in FileBlocks |->
                IF b < XFS_B_TO_FSB(size) THEN <<name, b>> ELSE "hole"],
     ctime |-> 0, mtime |-> 0, special |-> special, privs |-> privs]

\* the byte content of a file: byte i is byte (i mod blocksize) of the
\* block mapped at i / blocksize
FileBytes(f) ==
    [i \in 0..(f.size - 1) |->
        IF f.map[i \div XchgBlockSize] = "hole" THEN "zero"
        ELSE <<f.map[i \div XchgBlockSize], i % XchgBlockSize>>]

XchgMounts ==
    {[logswapext |-> TRUE, bigtime |-> TRUE, nonatomic |-> TRUE,
      quota |-> TRUE],
     [logswapext |-> FALSE, bigtime |-> TRUE, nonatomic |-> TRUE,
      quota |-> FALSE],
     [logswapext |-> FALSE, bigtime |-> FALSE, nonatomic |-> FALSE,
      quota |-> TRUE]}

XchgFlagSets ==
    {{}, {"FULL_FILES"}, {"TO_EOF"}, {"NONATOMIC"},
     {"NONATOMIC", "FULL_FILES"}, {"NONATOMIC", "TO_EOF"},
     {"FULL_FILES", "TO_EOF"}, {"DRY_RUN"}, {"FILE2_FRESH"},
     {"TO_EOF", "FILE2_FRESH"}}

\* struct xfs_exch_range as the caller fills it in; "snap" tells whether
\* the freshness fields hold file2's present values or older ones
XchgRequests ==
    UNION {
        {[file1_offset |-> o1, file2_offset |-> o2, length |-> l,
          flags |-> fl, snap |-> s] :
            o1 \in 0..XchgBlockSize, o2 \in {0, XchgBlockSize},
            l \in 0..MaxFileBytes,
            s \in IF "FILE2_FRESH" \in fl THEN {"current", "old"}
                  ELSE {"current"}} :
        fl \in XchgFlagSets}

NoFxr ==
    [file1_offset |-> 0, file2_offset |-> 0, length |-> 0, flags |-> {},
     file2_ino |-> 0, file2_ctime |-> 0, file2_mtime |-> 0]

\* the request with its freshness fields filled in from file2
MakeFxr(r, f2) ==
    [file1_offset |-> r.file1_offset, file2_offset |-> r.file2_offset,
     length |-> r.length, flags |-> r.flags,
     file2_ino |-> IF "FILE2_FRESH" \in r.flags THEN f2.ino ELSE 0,
     file2_ctime |->
        IF "FILE2_FRESH" \notin r.flags THEN 0
        ELSE IF r.snap = "current" THEN f2.ctime ELSE f2.ctime - 1,
     file2_mtime |-> IF "FILE2_FRESH" \in r.flags THEN f2.mtime ELSE 0]

NoRequest ==
    [file1_offset |-> 0, file2_offset |-> 0, length |-> 0, flags |-> {},
     snap |-> "current"]

NoXreq == [startoff1 |-> 0, startoff2 |-> 0, blockcount |-> 0,
           req_flags |-> {}]

NoXhist ==
    [ncalls |-> 0, fxr0 |-> NoFxr, req0 |-> NoRequest, pre |-> "OK", stale |-> FALSE,
     overq |-> <<>>, nretry |-> 0, reclaimed |-> {}, failing |-> {},
     ntouch |-> 0, nfault |-> 0, strategy |-> "none", nalloc |-> 0, ncancel |-> 0,
     ncommit |-> 0, prev |-> "none", eqlen |-> FALSE, ndone |-> 0,
     chk |-> "none", niolock |-> 0, finished |-> FALSE]

\* no exchange is running
XchgQuiet ==
    /\ xpc = "idle"
    /\ fxr = NoFxr
    /\ xf = [i \in {1, 2} |-> NewFile(i, IF i = 1 THEN "a" ELSE "b",
                                      XchgBlockSize, "none", FALSE)]
    /\ xf0 = xf
    /\ xf00 = xf
    /\ xmp = [logswapext |-> TRUE, bigtime |-> TRUE, nonatomic |-> TRUE,
              quota |-> TRUE]
    /\ xtp = "none"
    /\ xilock = FALSE
    /\ xiolock = FALSE
    /\ xflags = {}
    /\ xreq = NoXreq
    /\ retried = FALSE
    /\ xerror = "OK"
    /\ now = 0
    /\ xhist = NoXhist
(***************************************************************************)
(* Part V data: the xfile, a byte store made of pages                      *)
(* (fs/xfs/scrub/xfile.c).  Sizes are scaled down: pages of PAGE_SIZE      *)
(* bytes, XFILE_CACHE_ENTRIES cached pages.                                *)
(***************************************************************************)
PageIdx == 0..((S_MAXBYTES - 1) \div PAGE_SIZE)

\* a page that is not in the mapping, a cache slot that holds no page
NoPage == <<>>

NoKey == -1

ZeroPage == [i \in 1..PAGE_SIZE |-> 0]

\* a new xfile: no page is in the mapping, nothing is cached
NewXfile(cache_on) ==
    [pages |-> [p \in PageIdx |-> NoPage], isize |-> 0,
     cache_on |-> cache_on,
     cached |-> [i \in 1..XFILE_CACHE_ENTRIES |-> NoKey]]

NoXfileOp ==
    [op |-> "none", pos |-> 0, count |-> 0, ret |-> [n |-> 0, err |-> "OK"],
     buf |-> <<>>, fail |-> [turn |-> 0, step |-> "none"], obj |-> "OK",
     size |-> 0, prev |-> "none"]

NoWrite == [pos |-> 0, buf |-> <<>>]

\* the xfile without cache before the first call, with the return value
\* and the buffer of its last call
NewRef ==
    [valid |-> TRUE, x |-> NewXfile(FALSE), ret |-> [n |-> 0, err |-> "OK"],
     buf |-> <<>>]

\* the xfile without cache is followed no more
NoRef == [NewRef EXCEPT !.valid = FALSE]

\* no xfile is in use
XfileQuiet ==
    /\ xfile = NewXfile(FALSE)
    /\ xfile_last = NoXfileOp
    /\ xfile_written = NoWrite
    /\ xfile_nops = 0
    /\ xfile_nfault = 0
    /\ xfile_touched = {}
    /\ xfile_ref = NewRef

(***************************************************************************)
(* Part VI data: the in-memory btree in an xfile (fs/xfs/scrub/xfbtree.c). *)
(* Blocks are named by their xfile offset in blocks.  The btree has at     *)
(* most two levels: a node block holds more pointers than there are keys.  *)
(***************************************************************************)
XfbBlocks == 0..(2 * MaxKeys)

XfbKeys == 1..MaxKeys

\* maxrecs[0], maxrecs[1], minrecs[0], minrecs[1] of struct xfbtree
XfbMaxrecs(level) == IF level = 0 THEN XfbLeafMaxrecs ELSE MaxKeys

XfbMinrecs(level) == XfbMaxrecs(level) \div 2

\* a block that holds nothing
NoBlk ==
    [kind |-> "none", level |-> 0, numrecs |-> 0, recs |-> <<>>,
     ptrs |-> <<>>, leftsib |-> NULLFSBLOCK, rightsib |-> NULLFSBLOCK,
     nlevels |-> 0, root |-> 0]

\* xfs_btree_init_buf: an empty btree block of a level
InitBlk(level) ==
    [NoBlk EXCEPT !.kind = IF level = 0 THEN "leaf" ELSE "node",
                  !.level = level]

\* xfs_btree_mem_head_init: the head block, one level, root at leaf_xfoff
xfs_btree_mem_head_init(leaf_xfoff) ==
    [NoBlk EXCEPT !.kind = "head", !.nlevels = 1, !.root = leaf_xfoff]

\* xfbtree_create: the head block and an empty leaf are written to the xfile
NewBlocks ==
    [b \in XfbBlocks |->
        IF b = XFBTREE_HEAD_BLOCK
        THEN xfs_btree_mem_head_init(XFBTREE_INIT_LEAF_BLOCK)
        ELSE IF b = XFBTREE_INIT_LEAF_BLOCK THEN InitBlk(0)
        ELSE NoBlk]

\* struct xfbtree after xfbtree_create; size is the number of blocks of
\* the xfile that are backed
NewXfbtree == [freespace |-> {}, highest_offset |-> 2, size |-> 2]

NoCommit ==
    [ran |-> FALSE, ret |-> "OK", wrote |-> {}, dirty |-> {}, items |-> <<>>,
     before |-> NewBlocks]

\* what is kept of the last insertion that called xfbtree_alloc_block: the
\* blocks it was given, the number of blocks taken from the free space or
\* the end of the xfile, the blocks in use and the blocks freed in the
\* transaction when it began, and struct xfbtree before the call that failed
NoAlloc ==
    [ran |-> FALSE, error |-> "OK", handed |-> {}, taken |-> 0, inuse |-> {},
     txfreed |-> {}, before |-> NewXfbtree]

\* the log items of a transaction that are no buffers of the xfbtree: an
\* inode item, and a buffer of another buffer target
XfbOtherItems == {"XFS_LI_INODE", "XFS_LI_BUF"}

\* each of them is in the transaction or not: the inode item dirty, the
\* buffer of the other buffer target clean
XfbOthers ==
    {o \in [XfbOtherItems -> {"none", "clean", "dirty"}] :
        /\ o["XFS_LI_INODE"] # "clean"
        /\ o["XFS_LI_BUF"] # "dirty"}

\* a transaction that holds no item of others and is not dirty
NoTrans == [others |-> [k \in XfbOtherItems |-> "none"], dirty |-> FALSE]

\* what is kept of the last commit or cancel: the call, the items of others
\* in the transaction and the xfile before it
NoDetach == [by |-> "none", others |-> NoTrans.others, before |-> NewBlocks]

NoXfbHist ==
    [handed |-> {}, inserted |-> {}, phase |-> "insert", nfault |-> 0,
     nscribble |-> 0, commit |-> NoCommit,
     freed |-> {}, txfreed |-> {},
     inuse |-> {XFBTREE_HEAD_BLOCK, XFBTREE_INIT_LEAF_BLOCK},
     alloc |-> NoAlloc, detach |-> NoDetach]

\* no in-memory btree is in use
XfbQuiet ==
    /\ xfbt = NewXfbtree
    /\ xfb_blocks = NewBlocks
    /\ xfb_store = NewBlocks
    /\ xfb_items = <<>>
    /\ xfb_tp = NoTrans
    /\ xfb_pc = "open"
    /\ xfb_hist = NoXfbHist

(***************************************************************************)
(* Part VII data: the interval bitmap (fs/xfs/scrub/bitmap.h).  A bitmap   *)
(* is the set of its intervals [start, last].                              *)
(***************************************************************************)
XbmBits == 0..MaxBit

NoXbmOp == [op |-> "none", start |-> 0, len |-> 0, nregions |-> 0]

\* no bitmap is in use
XbmQuiet ==
    /\ xbm = {}
    /\ xbm_ref = {}
    /\ xbm_last = NoXbmOp

(***************************************************************************)
(* Part VIII data: the reference count of the intent log items             *)
(* (struct xfs_sxi_log_item, fs/xfs/xfs_swapext_item.c).                   *)
(***************************************************************************)
SxiItems == 1..MaxLogItems

\* an item that has not been allocated.  loc is where the log has the item
\* ("tp": in an open transaction, "cil": committed and pinned, "ail":
\* inserted and still pinned, "unpinned", "cancelled"); owner is who holds
\* the second reference ("dfp": the deferred work, "sxd": a done item,
\* "recovered": log recovery, "none")
NoSxiItem ==
    [alloc |-> FALSE, refcount |-> 0, ail |-> FALSE, freed |-> FALSE,
     nfree |-> 0, misuse |-> FALSE, loc |-> "none", owner |-> "none",
     origin |-> "none"]

\* no log item exists
SxiRefQuiet == sxi_lip = [i \in SxiItems |-> NoSxiItem]

(***************************************************************************)
(* Part IX data: the loops of scrub and repair that wait for a lock or     *)
(* scan the mappings of a file.                                            *)
(***************************************************************************)
\* the functions of src/ that hold such a loop
CkFns ==
    {"xchk_metapath_ilock_both", "xrep_rgbitmap",
     "xchk_rtbitmap_check_extents", "xrep_rtbitmap_data_mappings"}

NoCkHist == [begun |-> 0, turns |-> 0, locked |-> FALSE]

\* no loop runs
CancelQuiet ==
    /\ ck_fn = "none"
    /\ ck_off = 0
    /\ ck_len = 0
    /\ ck_sig = FALSE
    /\ ck_pc = "returned"
    /\ ck_error = "OK"
    /\ ck_hist = NoCkHist

\* the parts other than Part I and Part II are at rest
RestQuiet ==
    /\ ScrubvQuiet
    /\ XchgQuiet
    /\ XfileQuiet
    /\ XfbQuiet
    /\ XbmQuiet
    /\ SxiRefQuiet
    /\ CancelQuiet

(***************************************************************************)
(* Part I: initial state and actions.                                      *)
(***************************************************************************)
SxiQuiet ==
    /\ mode = "running"
    /\ log = <<>>
    /\ nswap = [k \in Ops |-> EmptyBag]
    /\ req = [k \in Ops |-> NoReq]
    /\ op = [k \in Ops |-> IdleOp]
    /\ tp = [k \in Ops |-> NoTp]
    /\ ail = {}
    /\ xstate = [k \in Ops |-> "none"]
    /\ rerr = "none"
    /\ crashes = 0

SxiInit == SxiQuiet /\ ScrubQuiet /\ RestQuiet

\* xfs_swapext_finish_update: one more extent is swapped; the result is
\* -EAGAIN while blocks remain.  fail: xfs_swapext_finish_one returns an
\* error and has exchanged nothing
xfs_swapext_finish_update(sxi, n, fail) ==
    LET s1 == xfs_swapext_finish_one(sxi, n)
    IN IF fail THEN [error |-> "EIO", swaps |-> {}, sxi |-> sxi]
       ELSE [error |-> IF s1.blockcount > 0 THEN "EAGAIN" ELSE "OK",
             swaps |-> SwappedPairs(sxi, n),
             sxi |-> s1]

\* a finish_item that frees the in-core intent whatever the result is
finish_item_frees_always(sxi, n, fail) ==
    [xfs_swapext_finish_update(sxi, n, fail) EXCEPT !.sxi = NoSxi]

\* xfs_swapext_finish_item: -EAGAIN keeps the in-core intent for the
\* requeue, any other result frees it
xfs_swapext_finish_item(sxi, n, fail) ==
    LET u == xfs_swapext_finish_update(sxi, n, fail)
    IN [u EXCEPT !.sxi = IF u.error = "EAGAIN" THEN u.sxi ELSE NoSxi]

\* a shutdown or crash: everything in core is lost, the log stays
LoseInCore ==
    /\ op' = [k \in Ops |->
                IF op[k].pc \in {"idle", "complete"} THEN op[k]
                ELSE [IdleOp EXCEPT !.pc = "dead"]]
    /\ tp' = [k \in Ops |-> NoTp]
    /\ ail' = {}
    /\ mode' = "crashed"
    /\ crashes' = crashes + 1

\* xfs_swapext: queue the exchange; the first transaction logs its intent
StartExchange(k, r) ==
    /\ mode = "running"
    /\ op[k].pc = "idle"
    /\ LET sxi == xfs_swapext_init_intent(k, r)
           it == xfs_swapext_create_intent(xfs_sxi_init, sxi)
       IN /\ op' = [op EXCEPT ![k] = [pc |-> "queued", sxi |-> sxi,
                                      intent |-> it, done |-> NULL,
                                      ret |-> "none"]]
          /\ tp' = [tp EXCEPT ![k] = [items |-> Items(<<it>>), swaps |-> {}]]
          /\ xstate' = [xstate EXCEPT ![k] =
                            IF IsNull(it) THEN "none" ELSE "Pending"]
    /\ req' = [req EXCEPT ![k] = r]
    /\ UNCHANGED <<mode, log, nswap, ail, rerr, crashes>>
    /\ UNCHANGED sxiOther

\* xfs_defer_finish_one: create_done, finish_item and, on -EAGAIN, a new
\* intent for what is left, all in the one transaction; fail: the swap
\* step fails, the transaction can only be cancelled
FinishItem(k, n, fail) ==
    /\ mode = "running"
    /\ op[k].pc = "ready"
    /\ n \in ExtentLens(op[k].sxi)
    /\ fail => (crashes < MaxCrashes /\ n = 1)
    /\ LET done == xfs_swapext_create_done(op[k].intent)
           res == xfs_swapext_finish_item(op[k].sxi, n, fail)
           it == IF res.error = "EAGAIN"
                 THEN xfs_swapext_create_intent(xfs_sxi_init, res.sxi)
                 ELSE NULL
       IN /\ op' = [op EXCEPT ![k] = [pc |-> "applied", sxi |-> res.sxi,
                                      intent |-> it, done |-> done,
                                      ret |-> res.error]]
          /\ tp' = [tp EXCEPT ![k] = [items |-> Items(<<done, it>>),
                                      swaps |-> res.swaps]]
          /\ xstate' = [xstate EXCEPT ![k] =
                            IF IsNull(op[k].intent) \/ fail THEN @
                            ELSE "InProgress"]
    /\ UNCHANGED <<mode, log, nswap, req, ail, rerr, crashes>>
    /\ UNCHANGED sxiOther

\* xfs_trans_commit / xfs_defer_trans_roll: the transaction's items reach
\* the log and its mapping changes reach the disk together
TransCommit(k) ==
    /\ mode = "running"
    /\ op[k].pc \in {"queued", "applied"}
    /\ op[k].ret \in {"none", "OK", "EAGAIN"}
    /\ log' = log \o tp[k].items
    /\ nswap' = [nswap EXCEPT ![k] = @ (+) SetToBag(tp[k].swaps)]
    /\ tp' = [tp EXCEPT ![k] = NoTp]
    /\ LET more == op[k].sxi.blockcount > 0
       IN /\ op' = [op EXCEPT ![k] =
                      IF more THEN [@ EXCEPT !.pc = "ready", !.done = NULL]
                      ELSE [IdleOp EXCEPT !.pc = "complete"]]
          /\ xstate' = [xstate EXCEPT ![k] =
                          IF ~more /\ @ = "InProgress" THEN "Done" ELSE @]
    /\ UNCHANGED <<mode, req, ail, rerr, crashes>>
    /\ UNCHANGED sxiOther

\* xfs_trans_cancel of a dirty transaction: xfs_swapext_abort_intent drops
\* the pending intent, the filesystem shuts down
TransCancel(k) ==
    /\ mode = "running"
    /\ crashes < MaxCrashes
    /\ op[k].pc \in {"queued", "applied"}
    /\ xstate' = [xstate EXCEPT ![k] =
                    IF op[k].pc = "queued" /\ ~IsNull(op[k].intent)
                    THEN "Aborted" ELSE @]
    /\ LoseInCore
    /\ UNCHANGED <<log, nswap, req, rerr>>
    /\ UNCHANGED sxiOther

\* power loss
Crash ==
    /\ mode \in {"running", "recover"}
    /\ crashes < MaxCrashes
    /\ LoseInCore
    /\ UNCHANGED <<log, nswap, req, xstate, rerr>>
    /\ UNCHANGED sxiOther

\* what media damage may have done to an intent record of the log by the
\* time recovery reads it
CorruptKinds ==
    {"pad", "flags", "ino1", "ino2", "isize", "off1", "off2", "len", "count"}

CorruptRecord(r, kind) ==
    CASE kind = "pad"   -> [r EXCEPT !.pad = 1]
      [] kind = "flags" -> [r EXCEPT !.flags = @ \cup {"UNKNOWN"}]
      [] kind = "ino1"  -> [r EXCEPT !.inode1 = 0]
      [] kind = "ino2"  -> [r EXCEPT !.inode2 = 0]
      [] kind = "isize" -> [r EXCEPT !.flags = @ \cup {"SET_SIZES"},
                                     !.isize1 = -1]
      [] kind = "off1"  -> [r EXCEPT !.startoff1 = XFS_MAX_FILEOFF + 1]
      [] kind = "off2"  -> [r EXCEPT !.startoff2 = XFS_MAX_FILEOFF + 1]
      [] kind = "len"   -> [r EXCEPT !.blockcount = XFS_MAX_FILEOFF + 2]
      [] kind = "count" -> [r EXCEPT !.blockcount = 0]
      [] OTHER          -> r

\* the intent record at log position i has no done record after it
Pending(i) ==
    \A j \in (i + 1)..Len(log) :
        ~(log[j].type = "SXD" /\ log[j].id = log[i].id)

xlog_recover_sxi_commit_pass2(a, fmt, lsn) ==
    IF fmt.pad # 0
    THEN [error |-> "EFSCORRUPTED", ail |-> a]
    ELSE [error |-> "OK", ail |-> a \cup {[lsn |-> lsn, fmt |-> fmt]}]

xlog_recover_sxd_commit_pass2(a, fmt) ==
    [error |-> "OK", ail |-> xlog_recover_release_intent(a, fmt.id)]

\* pass 2 of log recovery over the records lg[i..]: each record goes to its
\* commit_pass2 handler, the first error ends recovery
RECURSIVE xlog_recover_pass2(_, _, _)
xlog_recover_pass2(lg, i, a) ==
    IF i > Len(lg) THEN [error |-> "OK", ail |-> a]
    ELSE LET res == IF lg[i].type = "SXI"
                    THEN xlog_recover_sxi_commit_pass2(a, lg[i], i)
                    ELSE xlog_recover_sxd_commit_pass2(a, lg[i])
         IN IF res.error # "OK" THEN res
            ELSE xlog_recover_pass2(lg, i + 1, res.ail)

\* mount: pass 2 rebuilds the AIL from the committed records; i > 0: the
\* padding of record i (an intent or a done record) was damaged while the
\* filesystem was down
Mount(i) ==
    /\ mode = "crashed"
    /\ log' = IF i > 0 THEN [log EXCEPT ![i] = CorruptRecord(@, "pad")]
              ELSE log
    /\ LET res == xlog_recover_pass2(log', 1, {})
       IN /\ rerr' = res.error
          /\ ail' = res.ail
          /\ mode' = IF res.error = "OK" THEN "recover" ELSE "failed"
    /\ UNCHANGED <<nswap, req, op, tp, xstate, crashes>>
    /\ UNCHANGED sxiOther

\* xfs_sxi_item_recover up to its commit, on the oldest intent in the AIL.
\* kind: the damage the record had taken on disk before it was read;
\* fail: an allocation (inode, transaction) or the swap step fails
RecoverIntent(n, fail, kind) ==
    /\ mode = "recover"
    /\ ail # {}
    /\ \A k \in Ops : op[k].pc # "recovered"
    /\ LET item == FirstItem(ail)
           fmt == CorruptRecord(item.fmt, kind)
       IN /\ log' = [log EXCEPT ![item.lsn] = fmt]
          /\ ail' = (ail \ {item}) \cup {[item EXCEPT !.fmt = fmt]}
          /\ IF ~xfs_sxi_validate(fmt)
             THEN /\ rerr' = "EFSCORRUPTED"
                  /\ mode' = "failed"
                  /\ UNCHANGED <<op, tp, xstate>>
             ELSE IF fail
             THEN /\ rerr' = "ENOMEM"
                  /\ mode' = "failed"
                  /\ UNCHANGED <<op, tp, xstate>>
             ELSE LET sxi == xfs_sxi_item_recover_intent(fmt)
                      k == OpOfIno(sxi.ip1)
                      sxd == xfs_trans_get_sxd(fmt)
                      res == xfs_swapext_finish_update(sxi, n, FALSE)
                  IN /\ n \in ExtentLens(sxi)
                     /\ rerr' = "OK"
                     /\ mode' = mode
                     /\ op' = [op EXCEPT ![k] =
                                 [pc |-> "recovered",
                                  sxi |-> IF res.error = "EAGAIN"
                                          THEN res.sxi ELSE NoSxi,
                                  intent |-> NULL, done |-> sxd,
                                  ret |-> res.error]]
                     /\ tp' = [tp EXCEPT ![k] = [items |-> <<sxd>>,
                                                 swaps |-> res.swaps]]
                     /\ xstate' = [xstate EXCEPT ![k] = "InProgress"]
    /\ UNCHANGED <<nswap, req, crashes>>
    /\ UNCHANGED sxiOther

\* xfs_defer_ops_capture_and_commit at the end of xfs_sxi_item_recover: the
\* rest of the exchange gets a new intent in the same transaction; the
\* committed done item releases the recovered intent from the AIL
RecoverCommit(k) ==
    /\ mode = "recover"
    /\ op[k].pc = "recovered"
    /\ LET more == op[k].sxi.blockcount > 0
           it == IF more THEN xfs_swapext_create_intent(xfs_sxi_init, op[k].sxi)
                 ELSE NULL
       IN /\ log' = log \o tp[k].items \o Items(<<it>>)
          /\ op' = [op EXCEPT ![k] =
                      IF more
                      THEN [@ EXCEPT !.pc = "ready", !.intent = it,
                                     !.done = NULL]
                      ELSE [IdleOp EXCEPT !.pc = "complete"]]
          /\ xstate' = [xstate EXCEPT ![k] = IF more THEN @ ELSE "Done"]
    /\ nswap' = [nswap EXCEPT ![k] = @ (+) SetToBag(tp[k].swaps)]
    /\ tp' = [tp EXCEPT ![k] = NoTp]
    /\ ail' = ail \ {FirstItem(ail)}
    /\ UNCHANGED <<mode, req, rerr, crashes>>
    /\ UNCHANGED sxiOther

\* every recovered intent has been dealt with: the mount completes
RecoverDone ==
    /\ mode = "recover"
    /\ ail = {}
    /\ \A k \in Ops : op[k].pc # "recovered"
    /\ mode' = "running"
    /\ rerr' = "none"
    /\ UNCHANGED <<log, nswap, req, op, tp, ail, xstate, crashes>>
    /\ UNCHANGED sxiOther

SxiNext ==
    \/ \E k \in Ops : \E r \in Requests(k) : StartExchange(k, r)
    \/ \E k \in Ops, n \in 1..MaxBlocks, fail \in BOOLEAN :
            FinishItem(k, n, fail)
    \/ \E k \in Ops : TransCommit(k)
    \/ \E k \in Ops : TransCancel(k)
    \/ Crash
    \/ \E i \in 0..Len(log) : Mount(i)
    \/ \E n \in 1..MaxBlocks, fail \in BOOLEAN,
          kind \in {"none"} \cup (CorruptKinds \ {"pad"}) :
            RecoverIntent(n, fail, kind)
    \/ \E k \in Ops : RecoverCommit(k)
    \/ RecoverDone

SpecSxi == SxiInit /\ [][SxiNext]_<<sxiVars, sxiOther>>

(***************************************************************************)
(* Part I: properties.                                                     *)
(***************************************************************************)
\* block pairs the request of operation k asks to exchange
ReqPairs(k) ==
    {<<req[k].startoff1 + j, req[k].startoff2 + j>> :
        j \in 0..(req[k].blockcount - 1)}

\* block pairs of operation k exchanged on disk so far
Applied(k) == BagCardinality(nswap[k])

\* C1: for a logged exchange and any crash point, recovery resumes at
\* startoff1 + applied / startoff2 + applied with blockcount - applied
\* blocks left, no block pair is ever swapped a second time (on disk or in
\* the open transaction), none outside the range is swapped, and once the
\* intent is Done every block pair of the range has been swapped exactly once.
C1_SwappedExactlyOnce ==
    \A k \in Ops :
        req[k].logged =>
            /\ \A p \in BagToSet(nswap[k]) :
                   CopiesIn(p, nswap[k]) = 1 /\ p \in ReqPairs(k)
            /\ \A p \in tp[k].swaps :
                   p \in ReqPairs(k) /\ ~BagIn(p, nswap[k])
            /\ op[k].pc = "recovered" =>
                   LET fmt == FirstItem(ail).fmt
                   IN /\ fmt.startoff1 = req[k].startoff1 + Applied(k)
                      /\ fmt.startoff2 = req[k].startoff2 + Applied(k)
                      /\ fmt.blockcount = req[k].blockcount - Applied(k)
                      /\ <<fmt.startoff1, fmt.startoff2>> \in tp[k].swaps
            /\ xstate[k] = "Done" => nswap[k] = SetToBag(ReqPairs(k))

\* a crash came after part of the range was exchanged and recovery has
\* resumed the rest
C1_Witness ==
    \E k \in Ops :
        /\ req[k].logged
        /\ crashes > 0
        /\ op[k].pc = "recovered"
        /\ Applied(k) >= 1
        /\ Applied(k) < req[k].blockcount
        /\ tp[k].swaps # {}

\* log positions of the intent records of operation k
SxiOf(k) ==
    {i \in 1..Len(log) : log[i].type = "SXI" /\ log[i].inode1 = Ino1(k)}

\* a done record in the log names an intent of operation k
DoneLogged(k) ==
    \E i \in SxiOf(k) : \E j \in (i + 1)..Len(log) :
        log[j].type = "SXD" /\ log[j].id = log[i].id

C2_Edges ==
    {<<"none", "Pending">>, <<"Pending", "InProgress">>,
     <<"InProgress", "Done">>, <<"Pending", "Aborted">>}

\* C2: an intent moves only Pending -> InProgress -> Done or
\* Pending -> Aborted; Done and Aborted are final; it is Done only with a
\* done record naming it in the log and no intent of it left pending; it is
\* Aborted only with no intent of it committed and no mapping swapped.
C2_IntentLifecycle ==
    [][\A k \in Ops :
          /\ xstate'[k] # xstate[k] => <<xstate[k], xstate'[k]>> \in C2_Edges
          /\ xstate'[k] = "Done" =>
                 (DoneLogged(k) /\ \A i \in SxiOf(k) : ~Pending(i))'
          /\ xstate'[k] = "Aborted" =>
                 (SxiOf(k) = {} /\ nswap[k] = EmptyBag /\ tp[k].swaps = {})'
      ]_sxiVars

\* one intent has run to Done through several chunks while the other was
\* aborted before its first commit
C2_Witness ==
    \E k, j \in Ops :
        /\ xstate[k] = "Done"
        /\ req[k].blockcount > 1
        /\ Len(log) > 2
        /\ xstate[j] = "Aborted"

\* what a well-formed intent record is: zero padding, known flags, inode
\* numbers of the filesystem, sizes not negative when they are to be set,
\* both ranges non-empty and inside a file
C3_WellFormed(fmt) ==
    /\ fmt.pad = 0
    /\ fmt.flags \subseteq {"ATTR_FORK", "SET_SIZES", "INO1_WRITTEN"}
    /\ fmt.inode1 \in 1..4
    /\ fmt.inode2 \in 1..4
    /\ "SET_SIZES" \in fmt.flags => (fmt.isize1 >= 0 /\ fmt.isize2 >= 0)
    /\ fmt.blockcount >= 1
    /\ fmt.startoff1 >= 0 /\ fmt.startoff1 + fmt.blockcount - 1 <= 15
    /\ fmt.startoff2 >= 0 /\ fmt.startoff2 + fmt.blockcount - 1 <= 15

\* a step of xfs_sxi_item_recover on the oldest recovered intent
C3_RecoverStep ==
    /\ mode = "recover"
    /\ mode' # "crashed"
    /\ ail # {}
    /\ \A k \in Ops : op[k].pc # "recovered"

\* C3: recovery hands every intent left without a done record to
\* xfs_sxi_item_recover; a record that is not well-formed makes it return
\* EFSCORRUPTED with the intent still in the log and in the AIL and nothing
\* swapped (non-zero padding is refused the same way when pass 2 reads the
\* record); a well-formed one, when applied, is resumed at the offsets and
\* block count the record holds; and a mount never completes with a pending
\* intent that nothing in core is working on.
C3_RecoveryValidates ==
    [][/\ C3_RecoverStep =>
            LET item == FirstItem(ail')
                fmt == item.fmt
            IN IF ~C3_WellFormed(fmt)
               THEN /\ rerr' = "EFSCORRUPTED"
                    /\ mode' = "failed"
                    /\ UNCHANGED <<nswap, op, tp, xstate>>
                    /\ Len(log') = Len(log)
                    /\ log'[item.lsn] = fmt
               ELSE rerr' = "OK" =>
                      \E k \in Ops :
                        /\ op'[k].pc = "recovered"
                        /\ tp'[k].swaps # {}
                        /\ \A p \in tp'[k].swaps :
                             /\ p[1] >= fmt.startoff1
                             /\ p[1] < fmt.startoff1 + fmt.blockcount
                             /\ p[2] - p[1] = fmt.startoff2 - fmt.startoff1
                        /\ <<fmt.startoff1, fmt.startoff2>> \in tp'[k].swaps
                        /\ op'[k].sxi.blockcount =
                              IF Cardinality(tp'[k].swaps) < fmt.blockcount
                              THEN fmt.blockcount - Cardinality(tp'[k].swaps)
                              ELSE 0
                        /\ UNCHANGED nswap
       /\ (mode = "crashed" /\ mode' # "crashed") =>
            ((\E i \in 1..Len(log') : log'[i].type = "SXI" /\ log'[i].pad # 0)
                => /\ rerr' = "EFSCORRUPTED"
                   /\ mode' = "failed"
                   /\ UNCHANGED <<nswap, op, tp, xstate>>
                   /\ Len(log') = Len(log))
       /\ (mode' = "running" /\ mode = "recover") =>
            \A i \in 1..Len(log) :
                (log[i].type = "SXI" /\ Pending(i)) =>
                    \E k \in Ops : /\ op[k].pc = "ready"
                                   /\ op[k].intent.id = log[i].id
      ]_sxiVars

\* recovery has refused a damaged intent record
C3_Witness ==
    /\ mode = "failed"
    /\ rerr = "EFSCORRUPTED"
    /\ \E it \in ail : it.fmt.pad = 0 /\ ~C3_WellFormed(it.fmt)

\* intent records of the log with no later done record carrying their id,
\* other than those whose remaining work is already owned in core
C4_Uncancelled ==
    {i \in 1..Len(log) :
        /\ log[i].type = "SXI"
        /\ \A j \in (i + 1)..Len(log) :
               ~(log[j].type = "SXD" /\ log[j].id = log[i].id)
        /\ ~\E k \in Ops : op[k].pc = "ready" /\ op[k].intent.id = log[i].id}

\* C4: throughout recovery the AIL holds exactly the intents of the log
\* that no done record carrying their id follows: a done record cancels the
\* intent with its id and no other, and a cancelled intent is never replayed.
C4_DoneCancelsMatching ==
    mode = "recover" =>
        /\ ail = {[lsn |-> i, fmt |-> log[i]] : i \in C4_Uncancelled}
        /\ \A k \in Ops : op[k].pc = "recovered" =>
               (/\ FirstItem(ail).lsn \in C4_Uncancelled
                /\ op[k].done.id = FirstItem(ail).fmt.id)

\* pass 2 met a done record while two intents were in the AIL, and an
\* intent is left to replay
C4_Witness ==
    /\ mode = "recover"
    /\ ail # {}
    /\ \E d \in 1..Len(log) :
          /\ log[d].type = "SXD"
          /\ Cardinality({i \in 1..(d - 1) :
                 /\ log[i].type = "SXI"
                 /\ \A j \in (i + 1)..(d - 1) :
                        ~(log[j].type = "SXD" /\ log[j].id = log[i].id)}) >= 2

\* the apply step of operation k has just run: in xfs_defer_finish_one
\* (from "ready") or in xfs_sxi_item_recover
C30_ApplyStep(k) ==
    /\ op'[k].pc \in {"applied", "recovered"}
    /\ op[k].pc # op'[k].pc

\* the blocks the in-core intent of operation k had left before the step
C30_LeftBefore(k) ==
    IF op'[k].pc = "applied" THEN op[k].sxi.blockcount
    ELSE FirstItem(ail').fmt.blockcount

\* C30: after one chunk of an exchange is applied, the apply step returns
\* EAGAIN if blocks remain, the in-core intent is then kept with what
\* remains and, once the transaction commits, is queued again for a later
\* transaction; the in-core intent is freed exactly when the apply step
\* returns anything other than EAGAIN.
C30_MoreWorkKeepsIntent ==
    [][\A k \in Ops :
          /\ C30_ApplyStep(k) =>
                LET nswapped == Cardinality(tp'[k].swaps)
                    left == C30_LeftBefore(k) - nswapped
                IN  /\ (nswapped > 0 /\ left > 0) => op'[k].ret = "EAGAIN"
                    /\ op'[k].ret = "EAGAIN" =>
                            /\ nswapped > 0
                            /\ op'[k].sxi # NoSxi
                            /\ op'[k].sxi.blockcount = left
                            /\ left > 0
                    /\ (op'[k].sxi = NoSxi) <=> (op'[k].ret # "EAGAIN")
          /\ (/\ op[k].pc \in {"applied", "recovered"}
              /\ op[k].ret = "EAGAIN"
              /\ tp[k] # NoTp
              /\ tp'[k] = NoTp
              /\ mode' = mode) =>
                /\ op'[k].pc = "ready"
                /\ op'[k].sxi = op[k].sxi
                /\ nswap'[k] = nswap[k] (+) SetToBag(tp[k].swaps)
          /\ op'[k].pc = "ready" =>
                /\ op'[k].sxi # NoSxi
                /\ op'[k].sxi.blockcount > 0
      ]_sxiVars

\* one exchange has applied a chunk and has more to do, the apply step of
\* the other has failed and its in-core intent is freed
C30_Witness ==
    \E k, j \in Ops :
        /\ op[k].pc = "applied"
        /\ op[k].ret = "EAGAIN"
        /\ op[k].sxi.blockcount > 0
        /\ tp[k].swaps # {}
        /\ op[j].pc = "applied"
        /\ op[j].ret = "EIO"
        /\ op[j].sxi = NoSxi

\* C26: a recovered intent record and a recovered done record are each
\* rejected with EFSCORRUPTED whenever their padding is nonzero: a mount
\* that reads a log holding such a record fails with EFSCORRUPTED.
C26_ReservedFieldsRejected ==
    [][(mode = "crashed" /\ mode' # "crashed") =>
          ((\E i \in 1..Len(log') : log'[i].pad # 0)
              => /\ rerr' = "EFSCORRUPTED"
                 /\ mode' = "failed")
      ]_sxiVars

(***************************************************************************)
(* Part II: fs/xfs/scrub/scrub.c, the scrub / repair dispatcher.           *)
(***************************************************************************)
XFS_SCRUB_FLAGS_IN == {"REPAIR", "FORCE_REBUILD"}

XFS_SCRUB_FLAGS_OUT ==
    {"CORRUPT", "PREEN", "XFAIL", "XCORRUPT", "INCOMPLETE", "WARNING",
     "NO_REPAIR_NEEDED"}

\* sc->sa (AG headers and locks), sc->ip (inode and its ILOCK), sc->xfile,
\* sc->buf
Resources == {"sa", "ip", "xfile", "buf"}

Mounts ==
    [shutdown : BOOLEAN, norecovery : BOOLEAN, crc : BOOLEAN,
     readonly : BOOLEAN]

\* the requests a caller passes: flag words (a stale output flag and an
\* unknown bit among them) with acceptable other fields, and one request
\* for each way the other fields can be unacceptable
ScrubRequests ==
    [flags : (SUBSET XFS_SCRUB_FLAGS_IN)
                \cup {{"CORRUPT"}, {"REPAIR", "CORRUPT"}, {"UNKNOWN"}},
     reserved_zero : {TRUE}, type_ok : {TRUE}, fields_ok : {TRUE}]
    \cup {[flags |-> {"REPAIR"}, reserved_zero |-> r, type_ok |-> t,
           fields_ok |-> f] :
             <<r, t, f>> \in {<<FALSE, TRUE, TRUE>>, <<TRUE, FALSE, TRUE>>,
                              <<TRUE, TRUE, FALSE>>}}

\* what a setup function may leave held
SetupHolds == {{}, {"ip"}, {"sa", "ip"}, Resources}

\* what a scrub function may take in addition
ScrubHolds == {{}, {"buf"}, {"xfile", "buf"}}

\* faulty variant of xchk_validate_inputs: the output flags the caller left
\* in sm_flags are not cleared
validate_inputs_keeps_out_flags(m, sm) ==
    LET flags == sm.flags
        err == IF ~(flags \subseteq XFS_SCRUB_FLAGS_IN) THEN "EINVAL"
               ELSE IF ~sm.reserved_zero THEN "EINVAL"
               ELSE IF ~sm.type_ok THEN "ENOENT"
               ELSE IF ~sm.fields_ok THEN "EINVAL"
               ELSE IF "FORCE_REBUILD" \in flags /\ "REPAIR" \notin flags
                    THEN "EINVAL"
               ELSE IF "REPAIR" \in flags /\ ~m.crc THEN "EOPNOTSUPP"
               ELSE IF "REPAIR" \in flags /\ m.readonly THEN "EROFS"
               ELSE "OK"
    IN [error |-> err, sm_flags |-> flags]

\* faulty variant of xchk_validate_inputs: a read-only mount is not refused
validate_inputs_allows_readonly(m, sm) ==
    LET flags == sm.flags \ XFS_SCRUB_FLAGS_OUT
        err == IF ~(flags \subseteq XFS_SCRUB_FLAGS_IN) THEN "EINVAL"
               ELSE IF ~sm.reserved_zero THEN "EINVAL"
               ELSE IF ~sm.type_ok THEN "ENOENT"
               ELSE IF ~sm.fields_ok THEN "EINVAL"
               ELSE IF "FORCE_REBUILD" \in flags /\ "REPAIR" \notin flags
                    THEN "EINVAL"
               ELSE IF "REPAIR" \in flags /\ ~m.crc THEN "EOPNOTSUPP"
               ELSE "OK"
    IN [error |-> err, sm_flags |-> flags]

\* xchk_validate_inputs: the error and sm_flags with the output flags cleared
xchk_validate_inputs(m, sm) ==
    LET flags == sm.flags \ XFS_SCRUB_FLAGS_OUT
        err == IF ~(flags \subseteq XFS_SCRUB_FLAGS_IN) THEN "EINVAL"
               ELSE IF ~sm.reserved_zero THEN "EINVAL"
               ELSE IF ~sm.type_ok THEN "ENOENT"
               ELSE IF ~sm.fields_ok THEN "EINVAL"
               ELSE IF "FORCE_REBUILD" \in flags /\ "REPAIR" \notin flags
                    THEN "EINVAL"
               ELSE IF "REPAIR" \in flags /\ ~m.crc THEN "EOPNOTSUPP"
               ELSE IF "REPAIR" \in flags /\ m.readonly THEN "EROFS"
               ELSE "OK"
    IN [error |-> err, sm_flags |-> flags]

FSGATES_MASK == {"XCHK_FSGATES_DRAIN", "XREP_FSGATES_ATOMIC_XCHG"}

\* faulty variant of xchk_fsgates_disable: every flag of sc is cleared
fsgates_disable_clears_all(flags) == {}

\* xchk_fsgates_disable
xchk_fsgates_disable(flags) == flags \ FSGATES_MASK

\* results of xfs_trans_commit
CommitResults == {"OK", "EIO"}

\* faulty variant of xchk_teardown: the transaction is committed whenever
\* there is no error, repair request or not
teardown_commits_without_repair(s, smf, err, cres) ==
    LET commit == s.tp # "none" /\ err = "OK"
    IN [sc |-> [flags |-> xchk_fsgates_disable(
                              s.flags \ {"XCHK_HAVE_FREEZE_PROT"}),
                tp |-> "none", held |-> {}],
        error |-> IF commit THEN cres ELSE err,
        commit |-> commit,
        cancel |-> s.tp # "none" /\ ~commit,
        applied |-> IF commit /\ cres = "OK" THEN s.tp ELSE "none",
        dropped |-> IF "XCHK_HAVE_FREEZE_PROT" \in s.flags THEN 1 ELSE 0]

\* faulty variant of xchk_teardown: freeze protection is not dropped
teardown_keeps_freeze_prot(s, smf, err, cres) ==
    LET commit == s.tp # "none" /\ err = "OK" /\ "REPAIR" \in smf
    IN [sc |-> [flags |-> xchk_fsgates_disable(s.flags),
                tp |-> "none", held |-> {}],
        error |-> IF commit THEN cres ELSE err,
        commit |-> commit,
        cancel |-> s.tp # "none" /\ ~commit,
        applied |-> IF commit /\ cres = "OK" THEN s.tp ELSE "none",
        dropped |-> 0]

\* xchk_teardown(sc, error): the transaction is committed (result cres) or
\* cancelled, everything held is released; the new sc, the error returned,
\* and what was done
xchk_teardown(s, smf, err, cres) ==
    LET commit == s.tp # "none" /\ err = "OK" /\ "REPAIR" \in smf
    IN [sc |-> [flags |-> xchk_fsgates_disable(
                              s.flags \ {"XCHK_HAVE_FREEZE_PROT"}),
                tp |-> "none", held |-> {}],
        error |-> IF commit THEN cres ELSE err,
        commit |-> commit,
        cancel |-> s.tp # "none" /\ ~commit,
        applied |-> IF commit /\ cres = "OK" THEN s.tp ELSE "none",
        dropped |-> IF "XCHK_HAVE_FREEZE_PROT" \in s.flags THEN 1 ELSE 0]

\* the history after a teardown
TeardownHist(h, t) ==
    [h EXCEPT !.nteardown = @ + 1,
              !.ncommit = @ + (IF t.commit THEN 1 ELSE 0),
              !.ncancel = @ + (IF t.cancel THEN 1 ELSE 0)]

\* the structure on disk after a teardown: a committed fix cleans it
TeardownDisk(d, t) == IF t.applied = "fix" THEN "clean" ELSE d

\* xchk_could_repair: repair was asked for and has not fixed anything yet
xchk_could_repair(s, smf) ==
    "REPAIR" \in smf /\ "XREP_ALREADY_FIXED" \notin s.flags

\* xrep_will_attempt: the scrub left evidence of a problem
xrep_will_attempt(smf) == smf \cap {"CORRUPT", "XCORRUPT", "PREEN"} # {}

RepairOutcomes ==
    {"fixed", "badfix", "EDEADLOCK", "ECHRNG", "ENOMEM", "EOPNOTSUPP"}

\* faulty variant of xrep_attempt: a repair that meets in-flight work asks
\* for the drain again and again
xrep_attempt_drains_again(s, smf, out) ==
    CASE out \in {"fixed", "badfix"} ->
            [error |-> "EAGAIN",
             sc |-> [s EXCEPT !.tp = IF out = "fixed" THEN "fix" ELSE "badfix",
                              !.flags = @ \cup {"XREP_ALREADY_FIXED"}],
             sm_flags |-> smf \ XFS_SCRUB_FLAGS_OUT]
      [] out = "EDEADLOCK" ->
            IF "XCHK_TRY_HARDER" \notin s.flags
            THEN [error |-> "EAGAIN",
                  sc |-> [s EXCEPT !.flags = @ \cup {"XCHK_TRY_HARDER"}],
                  sm_flags |-> smf]
            ELSE [error |-> "OK", sc |-> s, sm_flags |-> smf]
      [] out = "ECHRNG" ->
            [error |-> "EAGAIN",
             sc |-> [s EXCEPT !.flags = @ \cup {"XCHK_NEED_DRAIN"}],
             sm_flags |-> smf]
      [] OTHER -> [error |-> out, sc |-> s, sm_flags |-> smf]

\* xrep_attempt: a repair that claims success stages its changes in the
\* transaction, clears the output flags, sets XREP_ALREADY_FIXED and asks
\* for a re-scrub with -EAGAIN; one that could not get its resources asks
\* for an escalation not yet taken with -EAGAIN, or gives up
xrep_attempt(s, smf, out) ==
    CASE out \in {"fixed", "badfix"} ->
            [error |-> "EAGAIN",
             sc |-> [s EXCEPT !.tp = IF out = "fixed" THEN "fix" ELSE "badfix",
                              !.flags = @ \cup {"XREP_ALREADY_FIXED"}],
             sm_flags |-> smf \ XFS_SCRUB_FLAGS_OUT]
      [] out = "EDEADLOCK" ->
            IF "XCHK_TRY_HARDER" \notin s.flags
            THEN [error |-> "EAGAIN",
                  sc |-> [s EXCEPT !.flags = @ \cup {"XCHK_TRY_HARDER"}],
                  sm_flags |-> smf]
            ELSE [error |-> "OK", sc |-> s, sm_flags |-> smf]
      [] out = "ECHRNG" ->
            IF "XCHK_NEED_DRAIN" \notin s.flags
            THEN [error |-> "EAGAIN",
                  sc |-> [s EXCEPT !.flags = @ \cup {"XCHK_NEED_DRAIN"}],
                  sm_flags |-> smf]
            ELSE [error |-> "OK", sc |-> s, sm_flags |-> smf]
      [] OTHER -> [error |-> out, sc |-> s, sm_flags |-> smf]

\* results of sc->ops->setup and sc->ops->scrub: success, the two retry
\* signals, a resource failure, and a verifier failure on a bad structure
OpResults(d) ==
    {"OK", "EDEADLOCK", "ECHRNG", "ENOMEM"}
        \cup (IF d = "corrupt" THEN {"EFSCORRUPTED", "EFSBADCRC"} ELSE {})

\* output flags one run of the checker may set: a clean structure is never
\* flagged CORRUPT, a corrupt one is when the scan completes
FoundSets(d, res) ==
    IF d = "clean"
    THEN {{}, {"PREEN"}, {"XFAIL"}, {"XCORRUPT"}, {"INCOMPLETE"}}
    ELSE IF res = "OK"
         THEN {{"CORRUPT"}, {"CORRUPT", "XCORRUPT"}, {"INCOMPLETE"}}
         ELSE {{}, {"CORRUPT"}, {"INCOMPLETE"}}

\* where the dispatcher goes with the result of setup or scrub
AfterOp(res, flags, smf, next) ==
    IF res = "EDEADLOCK" /\ "XCHK_TRY_HARDER" \notin flags THEN "try_harder"
    ELSE IF res = "ECHRNG" /\ "XCHK_NEED_DRAIN" \notin flags THEN "need_drain"
    ELSE IF res # "OK" \/ (next = "evaluate" /\ "INCOMPLETE" \in smf)
         THEN "out_teardown"
    ELSE next

(***************************************************************************)
(* Part II: initial state and actions (xfs_scrub_metadata).                *)
(***************************************************************************)
ScrubInit ==
    /\ pc = "idle"
    /\ sm_flags = {}
    /\ sc = NoSc
    /\ error = "OK"
    /\ mp \in Mounts
    /\ disk \in {"clean", "corrupt"}
    /\ disk0 = disk
    /\ writers = 0
    /\ hist = NoHist
    /\ SxiQuiet
    /\ RestQuiet

\* entry of xfs_scrub_metadata up to retry_op: mount state, input
\* validation, allocation of the scrub context
Call(sm, nomem) ==
    /\ pc \in {"idle", "returned"}
    /\ LET v == xchk_validate_inputs(mp, sm)
           err == IF mp.shutdown THEN "ESHUTDOWN"
                  ELSE IF mp.norecovery THEN "ENOTRECOVERABLE"
                  ELSE IF v.error # "OK" THEN v.error
                  ELSE IF nomem THEN "ENOMEM"
                  ELSE "OK"
           validated == ~mp.shutdown /\ ~mp.norecovery
       IN /\ error' = err
          /\ sm_flags' = IF validated THEN v.sm_flags ELSE sm.flags
          /\ pc' = IF err = "OK" THEN "retry_op" ELSE "out"
          /\ hist' = [NoHist EXCEPT
                        !.ctx = (err = "OK"),
                        !.after_fix = /\ pc = "returned"
                                      /\ error = "OK"
                                      /\ disk0 = "corrupt"
                                      /\ "XREP_ALREADY_FIXED" \in sc.flags
                                      /\ hist.rescrub = "ended"
                                      /\ hist.refound = {}]
    /\ sc' = NoSc
    /\ disk0' = disk
    /\ UNCHANGED <<mp, disk, writers>>
    /\ UNCHANGED scrubOther

\* retry_op: freeze protection for a repair request
RetryOp(werr) ==
    /\ pc = "retry_op"
    /\ IF "REPAIR" \in sm_flags
       THEN IF werr # "OK"
            THEN /\ error' = werr
                 /\ pc' = "out_sc"
                 /\ UNCHANGED <<sc, writers, hist>>
            ELSE /\ error' = "OK"
                 /\ sc' = [sc EXCEPT !.flags = @ \cup {"XCHK_HAVE_FREEZE_PROT"}]
                 /\ writers' = writers + 1
                 /\ hist' = [hist EXCEPT !.everheld = TRUE]
                 /\ pc' = "setup"
       ELSE /\ pc' = "setup"
            /\ UNCHANGED <<error, sc, writers, hist>>
    /\ UNCHANGED <<sm_flags, mp, disk, disk0>>
    /\ UNCHANGED scrubOther

\* sc->ops->setup and the branches on its result: the transaction is
\* allocated (always on success), resources got are taken, the drain gate
\* is enabled when NEED_DRAIN is set
Setup(res, got, alloc) ==
    /\ pc = "setup"
    /\ res = "OK" => alloc
    /\ LET tpk == IF ~alloc THEN "none"
                  ELSE IF "REPAIR" \in sm_flags THEN "real" ELSE "empty"
           gates == IF "XCHK_NEED_DRAIN" \in sc.flags
                    THEN {"XCHK_FSGATES_DRAIN"} ELSE {}
       IN /\ sc' = [flags |-> sc.flags \cup gates, tp |-> tpk, held |-> got]
          /\ hist' = [hist EXCEPT
                        !.nalloc = @ + (IF alloc THEN 1 ELSE 0),
                        !.nsetup = @ + 1,
                        !.everheld = @ \/ alloc \/ got # {} \/ gates # {}]
          /\ pc' = AfterOp(res, sc.flags, sm_flags, "scrub")
    /\ error' = res
    /\ UNCHANGED <<sm_flags, mp, disk, disk0, writers>>
    /\ UNCHANGED scrubOther

\* faulty variant of Scrub: INCOMPLETE is tested before the checker ran, so
\* an INCOMPLETE this run sets is overlooked
scrub_overlooks_incomplete(res, found, more) ==
    /\ pc = "scrub"
    /\ sc' = [sc EXCEPT !.held = @ \cup more]
    /\ sm_flags' = sm_flags \cup found
    /\ error' = res
    /\ pc' = AfterOp(res, sc.flags, sm_flags, "evaluate")
    /\ LET bad == res # "OK" \/ "INCOMPLETE" \in sm_flags'
       IN hist' = [hist EXCEPT
                     !.everheld = @ \/ more # {},
                     !.rescrub = IF "XREP_ALREADY_FIXED" \in sc.flags
                                 THEN "ran" ELSE @,
                     !.refound = IF "XREP_ALREADY_FIXED" \in sc.flags
                                 THEN @ \cup found ELSE @,
                     !.scrubbad = @ \/ bad,
                     !.scrubstop = @ \/ (bad /\ pc' \notin {"try_harder",
                                                             "need_drain"})]
    /\ UNCHANGED <<mp, disk, disk0, writers>>
    /\ UNCHANGED scrubOther

\* sc->ops->scrub, or sc->ops->repair_eval after a repair, and the branches
\* on its result
Scrub(res, found, more) ==
    /\ pc = "scrub"
    /\ sc' = [sc EXCEPT !.held = @ \cup more]
    /\ sm_flags' = sm_flags \cup found
    /\ error' = res
    /\ pc' = AfterOp(res, sc.flags, sm_flags', "evaluate")
    /\ LET bad == res # "OK" \/ "INCOMPLETE" \in sm_flags'
       IN hist' = [hist EXCEPT
                     !.everheld = @ \/ more # {},
                     !.rescrub = IF "XREP_ALREADY_FIXED" \in sc.flags
                                 THEN "ran" ELSE @,
                     !.refound = IF "XREP_ALREADY_FIXED" \in sc.flags
                                 THEN @ \cup found ELSE @,
                     !.scrubbad = @ \/ bad,
                     !.scrubstop = @ \/ (bad /\ pc' \notin {"try_harder",
                                                             "need_drain"})]
    /\ UNCHANGED <<mp, disk, disk0, writers>>
    /\ UNCHANGED scrubOther

\* faulty variant of Evaluate: an unneeded repair is not reported
evaluate_without_report ==
    /\ pc = "evaluate"
    /\ pc' = IF xchk_could_repair(sc, sm_flags) /\ xrep_will_attempt(sm_flags)
             THEN "repair" ELSE "out_nofix"
    /\ hist' = [hist EXCEPT
                  !.evaluated = TRUE,
                  !.rescrub = IF "XREP_ALREADY_FIXED" \in sc.flags
                              THEN "ended" ELSE @]
    /\ UNCHANGED <<sm_flags, sc, error, mp, disk, disk0, writers>>
    /\ UNCHANGED scrubOther

\* after a scrub that ran to its end: xchk_update_health, then repair if
\* it could and will be attempted, NO_REPAIR_NEEDED if it could but is not
\* needed
Evaluate ==
    /\ pc = "evaluate"
    /\ IF xchk_could_repair(sc, sm_flags)
       THEN IF ~xrep_will_attempt(sm_flags)
            THEN /\ sm_flags' = sm_flags \cup {"NO_REPAIR_NEEDED"}
                 /\ pc' = "out_nofix"
            ELSE /\ pc' = "repair"
                 /\ UNCHANGED sm_flags
       ELSE /\ pc' = "out_nofix"
            /\ UNCHANGED sm_flags
    /\ hist' = [hist EXCEPT
                  !.evaluated = TRUE,
                  !.rescrub = IF "XREP_ALREADY_FIXED" \in sc.flags
                              THEN "ended" ELSE @]
    /\ UNCHANGED <<sc, error, mp, disk, disk0, writers>>
    /\ UNCHANGED scrubOther

\* xrep_attempt, repair_outcomes, and the restart on -EAGAIN
Repair(out, cres) ==
    /\ pc = "repair"
    /\ LET r == xrep_attempt(sc, sm_flags, out)
           t == xchk_teardown(r.sc, r.sm_flags, "OK", cres)
           h == [hist EXCEPT !.nrepair = @ + 1, !.everheld = TRUE,
                             !.nagain = @ + (IF r.error = "EAGAIN"
                                             THEN 1 ELSE 0)]
       IN /\ sm_flags' = r.sm_flags
          /\ IF r.error = "EAGAIN"
             THEN /\ sc' = t.sc
                  /\ writers' = writers - t.dropped
                  /\ disk' = TeardownDisk(disk, t)
                  /\ error' = t.error
                  /\ IF t.error # "OK"
                     THEN /\ hist' = [TeardownHist(h, t) EXCEPT
                                        !.failures = @ + 1]
                          /\ pc' = "out_sc"
                     ELSE /\ hist' = TeardownHist(h, t)
                          /\ pc' = "retry_op"
             ELSE /\ sc' = r.sc
                  /\ error' = r.error
                  /\ hist' = h
                  /\ pc' = "out_nofix"
                  /\ UNCHANGED <<writers, disk>>
    /\ UNCHANGED <<mp, disk0>>
    /\ UNCHANGED scrubOther

\* faulty variant of xchk_postmortem: the failure is logged whether or not
\* a repair was asked for
postmortem_without_repair_test(smf) ==
    smf \cap {"CORRUPT", "XCORRUPT"} # {}

\* xchk_postmortem: does it call xrep_failure
xchk_postmortem(smf) ==
    "REPAIR" \in smf /\ smf \cap {"CORRUPT", "XCORRUPT"} # {}

\* out_nofix: xchk_postmortem
OutNofix ==
    /\ pc = "out_nofix"
    /\ hist' = IF xchk_postmortem(sm_flags)
               THEN [hist EXCEPT !.failures = @ + 1]
               ELSE hist
    /\ pc' = "out_teardown"
    /\ UNCHANGED <<sm_flags, sc, error, mp, disk, disk0, writers>>
    /\ UNCHANGED scrubOther

\* out_teardown: error = xchk_teardown(sc, error)
OutTeardown(cres) ==
    /\ pc = "out_teardown"
    /\ LET t == xchk_teardown(sc, sm_flags, error, cres)
       IN /\ sc' = t.sc
          /\ error' = t.error
          /\ writers' = writers - t.dropped
          /\ disk' = TeardownDisk(disk, t)
          /\ hist' = TeardownHist(hist, t)
    /\ pc' = "out_sc"
    /\ UNCHANGED <<sm_flags, mp, disk0>>
    /\ UNCHANGED scrubOther

\* out_sc: xchk_stats_merge, kfree(sc)
OutSc ==
    /\ pc = "out_sc"
    /\ pc' = "out"
    /\ UNCHANGED <<sm_flags, sc, error, mp, disk, disk0, writers, hist>>
    /\ UNCHANGED scrubOther

\* out: a corruption error becomes the CORRUPT output flag; return error
Out ==
    /\ pc = "out"
    /\ IF error \in {"EFSCORRUPTED", "EFSBADCRC"}
       THEN /\ sm_flags' = sm_flags \cup {"CORRUPT"}
            /\ error' = "OK"
       ELSE UNCHANGED <<sm_flags, error>>
    /\ pc' = "returned"
    /\ UNCHANGED <<sc, mp, disk, disk0, writers, hist>>
    /\ UNCHANGED scrubOther

\* the teardown and restart both escalations share
Escalate(flag, count, cres) ==
    LET t == xchk_teardown(sc, sm_flags, "OK", cres)
    IN /\ writers' = writers - t.dropped
       /\ disk' = TeardownDisk(disk, t)
       /\ error' = t.error
       /\ IF t.error # "OK"
          THEN /\ sc' = t.sc
               /\ hist' = [TeardownHist(hist, t) EXCEPT ![count] = @ + 1]
               /\ pc' = "out_sc"
          ELSE /\ sc' = [t.sc EXCEPT !.flags = @ \cup {flag}]
               /\ hist' = [TeardownHist(hist, t) EXCEPT
                             ![count] = @ + 1, !.retries = @ + 1]
               /\ pc' = "retry_op"
       /\ UNCHANGED <<sm_flags, mp, disk0>>
       /\ UNCHANGED scrubOther

\* need_drain:
NeedDrain(cres) ==
    /\ pc = "need_drain"
    /\ Escalate("XCHK_NEED_DRAIN", "ndrain", cres)

\* try_harder:
TryHarder(cres) ==
    /\ pc = "try_harder"
    /\ Escalate("XCHK_TRY_HARDER", "ntry", cres)

ScrubNext ==
    \/ \E sm \in ScrubRequests, nomem \in BOOLEAN : Call(sm, nomem)
    \/ \E werr \in {"OK", "EROFS"} : RetryOp(werr)
    \/ \E res \in OpResults(disk), got \in SetupHolds, alloc \in BOOLEAN :
          Setup(res, got, alloc)
    \/ \E res \in OpResults(disk), more \in ScrubHolds :
          \E found \in FoundSets(disk, res) : Scrub(res, found, more)
    \/ Evaluate
    \/ \E out \in RepairOutcomes, cres \in CommitResults : Repair(out, cres)
    \/ OutNofix
    \/ \E cres \in CommitResults : OutTeardown(cres)
    \/ OutSc
    \/ Out
    \/ \E cres \in CommitResults : NeedDrain(cres)
    \/ \E cres \in CommitResults : TryHarder(cres)

SpecScrub == ScrubInit /\ [][ScrubNext]_<<scrubVars, scrubOther>>

(***************************************************************************)
(* Part II: properties.                                                    *)
(***************************************************************************)
\* C5: within one call of xfs_scrub_metadata the try_harder escalation is
\* taken at most once and the need_drain escalation is taken at most once,
\* whatever setup, scrub and repair return.
C5_EscalationsAtMostOnce ==
    /\ hist.ntry <= 1
    /\ hist.ndrain <= 1
    /\ hist.retries <= 2

\* a call that has taken both escalations and, with both flags set, has
\* been handed another retry signal
C5_Witness ==
    /\ hist.ntry = 1
    /\ hist.ndrain = 1
    /\ {"XCHK_TRY_HARDER", "XCHK_NEED_DRAIN"} \subseteq sc.flags
    /\ pc = "out_teardown"
    /\ error \in {"EDEADLOCK", "ECHRNG"}

\* C6: xfs_scrub_metadata never returns EDEADLOCK or ECHRNG to its caller.
C6_RetrySignalsNeverReturned ==
    pc = "returned" => error \notin {"EDEADLOCK", "ECHRNG"}

\* what the call holds: transaction, locks and buffers of sc, freeze
\* protection
HoldsNothing ==
    /\ sc.tp = "none"
    /\ sc.held = {}
    /\ sc.flags \cap ({"XCHK_HAVE_FREEZE_PROT"} \cup FSGATES_MASK) = {}
    /\ writers = 0

\* C7 as stated: on every path once the scrub context exists, xchk_teardown
\* has run before the call returns.
C7_TeardownOnEveryPath ==
    (pc = "returned" /\ hist.ctx) => hist.nteardown >= 1

\* C7 as amended: once the scrub context exists the call returns holding no
\* transaction, lock, freeze protection, buffer or xfile, and xchk_teardown
\* has run on every path but the one where freeze protection is refused
\* before anything was taken.
C7_NothingHeldAtReturn ==
    (pc \in {"out_sc", "out", "returned"} /\ hist.ctx) =>
        /\ HoldsNothing
        /\ hist.nteardown = 0 => (~hist.everheld /\ "REPAIR" \in sm_flags
                                  /\ error = "EROFS")

\* a repair call that took resources, was restarted and failed has returned
C7_Witness ==
    /\ pc = "returned"
    /\ hist.ctx
    /\ hist.everheld
    /\ hist.nteardown >= 2
    /\ error \notin {"OK"}

\* C8: a call without REPAIR never commits its transaction (every one it
\* allocated is cancelled) and leaves the structure on disk as it was; no call returns a corruption
\* error code, and a call with no input flags whose checker ran over a
\* corrupt structure to the end returns 0 with CORRUPT set.
C8_ScrubOnlyChangesNothing ==
    /\ (hist.ctx /\ "REPAIR" \notin sm_flags) =>
           /\ hist.ncommit = 0
           /\ disk = disk0
           /\ hist.ncancel + (IF sc.tp = "none" THEN 0 ELSE 1) = hist.nalloc
    /\ pc = "returned" => error \notin {"EFSCORRUPTED", "EFSBADCRC"}
    /\ (/\ pc = "returned"
        /\ sm_flags \cap XFS_SCRUB_FLAGS_IN = {}
        /\ hist.evaluated
        /\ disk0 = "corrupt") => (error = "OK" /\ "CORRUPT" \in sm_flags)

\* a scrub-only call on a corrupt structure has returned 0 with CORRUPT as
\* its only flag, its transaction cancelled
C8_Witness ==
    /\ pc = "returned"
    /\ sm_flags = {"CORRUPT"}
    /\ error = "OK"
    /\ disk0 = "corrupt"
    /\ disk = "corrupt"
    /\ hist.evaluated
    /\ hist.ncancel >= 1
    /\ hist.ncommit = 0

\* C9: xrep_attempt is called only for a request with REPAIR set, on a
\* read-write mount with the CRC (v5) feature, and only right after a
\* scrub that ran to its end and left CORRUPT, XCORRUPT or PREEN set.
C9_RepairOnlyWhenAllowed ==
    /\ (pc = "repair" \/ hist.nrepair > 0) =>
           /\ "REPAIR" \in sm_flags
           /\ mp.crc
           /\ ~mp.readonly
    /\ pc = "repair" =>
           /\ hist.evaluated
           /\ error = "OK"
           /\ sm_flags \cap {"CORRUPT", "XCORRUPT", "PREEN"} # {}

\* the repair step is about to be invoked on a corrupt structure
C9_Witness ==
    /\ pc = "repair"
    /\ "REPAIR" \in sm_flags
    /\ "CORRUPT" \in sm_flags
    /\ disk = "corrupt"
    /\ mp.crc
    /\ ~mp.readonly

\* C10: a call with REPAIR set whose scrub ran to its end leaving none of
\* CORRUPT, XCORRUPT, PREEN set and which has repaired nothing sets
\* NO_REPAIR_NEEDED and goes on without calling xrep_attempt; so it
\* returns with NO_REPAIR_NEEDED set and no repair invoked.
C10_NoRepairNeeded ==
    /\ (/\ pc \in {"out_nofix", "out_teardown", "out_sc", "out", "returned"}
        /\ "REPAIR" \in sm_flags
        /\ hist.evaluated
        /\ "XREP_ALREADY_FIXED" \notin sc.flags
        /\ sm_flags \cap {"CORRUPT", "XCORRUPT", "PREEN"} = {}) =>
            /\ "NO_REPAIR_NEEDED" \in sm_flags
            /\ hist.nrepair = 0
    /\ "NO_REPAIR_NEEDED" \in sm_flags => hist.nrepair = 0

\* a repair request on a clean structure has returned 0 with
\* NO_REPAIR_NEEDED and no repair was invoked
C10_Witness ==
    /\ pc = "returned"
    /\ "REPAIR" \in sm_flags
    /\ "NO_REPAIR_NEEDED" \in sm_flags
    /\ error = "OK"
    /\ hist.evaluated
    /\ hist.nrepair = 0
    /\ disk = "clean"

\* C11 as stated: a call whose repair step claimed success has re-run the
\* checker before it returns, and has logged a repair failure if the reply
\* has CORRUPT or XCORRUPT set.
C11_RescrubAndLogAlways ==
    (pc = "returned" /\ "XREP_ALREADY_FIXED" \in sc.flags) =>
        /\ hist.rescrub # "no"
        /\ sm_flags \cap {"CORRUPT", "XCORRUPT"} # {} => hist.failures >= 1

\* C11 as amended: after a repair step that claimed success the call
\* returns without re-running the checker only with an error (of the
\* commit, of freeze protection or of setup); when the re-scrub ran to its
\* end and left CORRUPT or XCORRUPT set, a repair failure has been logged
\* by the time the call tears down; a repair failure is logged only for
\* requests with REPAIR set.
C11_RescrubAfterRepair ==
    /\ (/\ pc = "out_sc"
        /\ "XREP_ALREADY_FIXED" \in sc.flags
        /\ hist.rescrub = "no") => error # "OK"
    /\ (/\ pc \in {"out_teardown", "out_sc", "out", "returned"}
        /\ hist.rescrub = "ended"
        /\ sm_flags \cap {"CORRUPT", "XCORRUPT"} # {}) => hist.failures >= 1
    /\ hist.failures > 0 => "REPAIR" \in sm_flags

\* a repair claimed success, the re-scrub ran to its end and still found
\* the structure corrupt, and the failure was logged
C11_Witness ==
    /\ pc = "returned"
    /\ "XREP_ALREADY_FIXED" \in sc.flags
    /\ hist.rescrub = "ended"
    /\ "CORRUPT" \in sm_flags
    /\ hist.failures = 1
    /\ error = "OK"

\* C12: a REPAIR call whose repair claimed success and whose re-scrub ran
\* to its end finding nothing returns 0 with no output flag set (the flags
\* of the first pass are not carried into the reply) and the structure
\* clean on disk; the scrub-only call that follows such a call on a
\* structure that was corrupt never has CORRUPT in its flags.
C12_RepairedReplyIsClean ==
    /\ (/\ pc = "returned"
        /\ error = "OK"
        /\ "XREP_ALREADY_FIXED" \in sc.flags
        /\ hist.rescrub = "ended"
        /\ hist.refound = {}) =>
            /\ sm_flags \cap XFS_SCRUB_FLAGS_OUT = {}
            /\ disk = "clean"
    /\ (hist.after_fix /\ "REPAIR" \notin sm_flags) =>
            "CORRUPT" \notin sm_flags

\* after a successful repair of a corrupt structure, the following
\* scrub-only call has run its checker to the end and returned no flags
C12_Witness ==
    /\ pc = "returned"
    /\ hist.after_fix
    /\ hist.evaluated
    /\ sm_flags = {}
    /\ error = "OK"
    /\ disk = "clean"

\* C31: every call of xfs_scrub_metadata makes a bounded number of passes
\* through Setup: besides the at most one try_harder and the at most one
\* need_drain restart, the restart taken when xrep_attempt returns -EAGAIN
\* happens at most three times (once for a repair that claimed success,
\* once for each escalation the repair asks for), and at most once when no
\* escalation is left; a call passes through Setup at most four times.
C31_BoundedPassesThroughSetup ==
    /\ hist.nsetup <= 4
    /\ hist.nagain <= 3
    /\ hist.nagain + hist.ntry + hist.ndrain <= 3
    /\ hist.nsetup <= 1 + hist.nagain + hist.ntry + hist.ndrain
    /\ hist.nagain >= 2 =>
           sc.flags \cap {"XCHK_TRY_HARDER", "XCHK_NEED_DRAIN"} # {}

\* a call that went through Setup four times, restarted by the repair step
\* each time, has returned
C31_Witness ==
    /\ pc = "returned"
    /\ hist.nsetup = 4
    /\ hist.nagain = 3
    /\ hist.nrepair = 3

\* C32 as stated: once Scrub has returned an error or set INCOMPLETE in a
\* call, no repair is attempted in that call, NO_REPAIR_NEEDED is not set,
\* and the call is on its way out through Teardown.
C32_NoRepairAfterFailedScrub ==
    hist.scrubbad =>
        /\ pc # "repair"
        /\ "NO_REPAIR_NEEDED" \notin sm_flags

\* C32 as amended: once Scrub has returned an error that is not taken as
\* the try_harder or need_drain escalation, or has set INCOMPLETE without
\* returning such a signal, the call goes to out_teardown and from there
\* out: no repair is attempted, NO_REPAIR_NEEDED is not set; and with
\* INCOMPLETE set no repair is ever attempted and NO_REPAIR_NEEDED is
\* never set, escalation or not.
C32_NoRepairAfterScrubStops ==
    /\ hist.scrubstop =>
           /\ pc \in {"out_teardown", "out_sc", "out", "returned"}
           /\ "NO_REPAIR_NEEDED" \notin sm_flags
    /\ "INCOMPLETE" \in sm_flags =>
           /\ pc \notin {"evaluate", "repair", "out_nofix"}
           /\ "NO_REPAIR_NEEDED" \notin sm_flags

\* a repair request on a corrupt structure whose checker could not finish
\* has returned without a repair
C32_Witness ==
    /\ pc = "returned"
    /\ hist.scrubstop
    /\ {"REPAIR", "INCOMPLETE"} \subseteq sm_flags
    /\ disk = "corrupt"
    /\ hist.nrepair = 0
    /\ hist.nteardown = 1

(***************************************************************************)
(* Part III: vectored scrub (fs/xfs/scrub/scrub.c, xfs_scrubv_metadata).   *)
(***************************************************************************)
\* the entries a caller may put into a vector: scrub requests ("PROBE"
\* stands for every type below XFS_SCRUB_TYPE_NR) and barriers, with
\* well-formed and ill-formed flags and reserved fields
VecEntries ==
    {[type |-> "BARRIER", flags |-> f, ret |-> "OK", reserved |-> 0] :
        f \in {{}, {"CORRUPT"}, {"REPAIR"}}}
    \cup {[type |-> "PROBE", flags |-> f, ret |-> "OK", reserved |-> 0] :
        f \in {{}, {"CORRUPT"}}}
    \cup {[type |-> "PROBE", flags |-> {}, ret |-> "OK", reserved |-> 1]}

RECURSIVE VecsOfLen(_)
VecsOfLen(n) ==
    IF n = 0 THEN {<<>>}
    ELSE {Append(s, e) : s \in VecsOfLen(n - 1), e \in VecEntries}

\* struct xfs_scrub_vec_head: svh_flags (within XFS_SCRUB_VEC_FLAGS_ALL or
\* not) and svh_vecs[0 .. svh_nr - 1]
VecHeads ==
    {[flags_ok |-> o, vecs |-> s] :
        o \in BOOLEAN, s \in UNION {VecsOfLen(n) : n \in 1..MaxVecs}}

\* what one call of xfs_scrub_metadata leaves in (sv_ret, sv_flags): it
\* returns -ESHUTDOWN before it touches sm_flags, or it clears the output
\* flags of the request and the run sets some of them
ScrubReplies(inflags) ==
    {[ret |-> "ESHUTDOWN", flags |-> inflags]}
    \cup {[ret |-> r, flags |-> (inflags \ XFS_SCRUB_FLAGS_OUT) \cup out] :
            r \in {"OK", "EBUSY", "EIO"},
            out \in {{}, {"CORRUPT"}, {"WARNING"}}}

\* the entry checks at the head of xfs_scrubv_metadata
scrubv_validate(vhead) ==
    IF ~vhead.flags_ok THEN "EINVAL"
    ELSE IF \E i \in 1..Len(vhead.vecs) :
                \/ vhead.vecs[i].reserved # 0
                \/ /\ vhead.vecs[i].type = "BARRIER"
                   /\ vhead.vecs[i].flags \ XFS_SCRUB_FLAGS_OUT # {}
         THEN "EINVAL"
    ELSE "OK"

\* xfs_scrubv_previous_failures without the comparison of the out-flags
\* with the barrier's mask
previous_failures_ignores_flags(vecs, b) ==
    \E j \in 1..(b - 1) :
        /\ vecs[j].type # "BARRIER"
        /\ vecs[j].ret \notin {"OK", "EBUSY", "ENOENT", "EUSERS"}

\* xfs_scrubv_previous_failures: b is the index of the barrier
xfs_scrubv_previous_failures(vecs, b) ==
    LET failmask == vecs[b].flags \cap XFS_SCRUB_FLAGS_OUT
    IN  \E j \in 1..(b - 1) :
            /\ vecs[j].type # "BARRIER"
            /\ \/ vecs[j].ret \notin {"OK", "EBUSY", "ENOENT", "EUSERS"}
               \/ vecs[j].flags \cap failmask # {}

ScrubvInit ==
    /\ ScrubvQuiet
    /\ SxiQuiet
    /\ ScrubQuiet
    /\ XchgQuiet
    /\ XfileQuiet
    /\ XfbQuiet
    /\ XbmQuiet
    /\ SxiRefQuiet
    /\ CancelQuiet

\* xfs_scrubv_metadata up to the loop that runs the scrubbers
ScrubvCall(vhead) ==
    /\ vpc = "idle"
    /\ svh_vecs' = vhead.vecs
    /\ vi' = 1
    /\ verror' = scrubv_validate(vhead)
    /\ vpc' = IF scrubv_validate(vhead) = "OK" THEN "run" ELSE "returned"
    /\ UNCHANGED <<vran, vbar>>
    /\ UNCHANGED scrubvOther

\* one turn of the loop at a barrier entry
ScrubvBarrier ==
    /\ vpc = "run"
    /\ vi <= Len(svh_vecs)
    /\ svh_vecs[vi].type = "BARRIER"
    /\ vbar' = vbar \cup {vi}
    /\ IF xfs_scrubv_previous_failures(svh_vecs, vi)
       THEN /\ svh_vecs' = [svh_vecs EXCEPT ![vi].ret = "ECANCELED"]
            /\ vpc' = "returned"
            /\ UNCHANGED vi
       ELSE /\ vi' = vi + 1
            /\ UNCHANGED <<svh_vecs, vpc>>
    /\ UNCHANGED <<verror, vran>>
    /\ UNCHANGED scrubvOther

\* one turn of the loop at a scrub entry: reply is what xfs_scrub_metadata
\* left in sm, sig is fatal_signal_pending(current)
ScrubvEntry(reply, sig) ==
    /\ vpc = "run"
    /\ vi <= Len(svh_vecs)
    /\ svh_vecs[vi].type # "BARRIER"
    /\ svh_vecs' = [svh_vecs EXCEPT ![vi].ret = reply.ret,
                                    ![vi].flags = reply.flags]
    /\ vran' = vran \cup {vi}
    /\ IF sig
       THEN /\ verror' = "EINTR"
            /\ vpc' = "returned"
            /\ UNCHANGED vi
       ELSE /\ vi' = vi + 1
            /\ UNCHANGED <<verror, vpc>>
    /\ UNCHANGED vbar
    /\ UNCHANGED scrubvOther

\* the loop has run off the end of the vector
ScrubvReturn ==
    /\ vpc = "run"
    /\ vi > Len(svh_vecs)
    /\ vpc' = "returned"
    /\ UNCHANGED <<svh_vecs, vi, verror, vran, vbar>>
    /\ UNCHANGED scrubvOther

ScrubvNext ==
    \/ \E vhead \in VecHeads : ScrubvCall(vhead)
    \/ ScrubvBarrier
    \/ \E reply \in ScrubReplies(IF vpc = "run" /\ vi <= Len(svh_vecs)
                                 THEN svh_vecs[vi].flags ELSE {}),
          sig \in BOOLEAN : ScrubvEntry(reply, sig)
    \/ ScrubvReturn

SpecScrubv == ScrubvInit /\ [][ScrubvNext]_<<scrubvVars, scrubvOther>>

(***************************************************************************)
(* Part III properties.                                                    *)
(***************************************************************************)
\* earlier scrub entries of the batch whose reported flags meet the mask
\* of barrier b
ReportedInMask(b) ==
    {j \in 1..(b - 1) :
        /\ svh_vecs[j].type # "BARRIER"
        /\ svh_vecs[j].flags \cap svh_vecs[b].flags \cap XFS_SCRUB_FLAGS_OUT
               # {}}

\* C13: when the vectored scrub has come to a barrier entry and an earlier
\* non-barrier entry of the batch reported an output flag that is in the
\* barrier's mask, the barrier's result is ECANCELED, the call has ended
\* and no entry behind the barrier has been executed.
C13_BarrierCancels ==
    \A b \in vbar :
        ReportedInMask(b) # {} =>
            /\ svh_vecs[b].ret = "ECANCELED"
            /\ vpc = "returned"
            /\ \A k \in vran : k < b

\* a barrier with entries behind it cancelled the batch because of a flag
\* alone: every earlier entry returned 0
C13_Witness ==
    /\ vpc = "returned"
    /\ \E b \in vbar :
        /\ b < Len(svh_vecs)
        /\ ReportedInMask(b) # {}
        /\ \A j \in 1..(b - 1) : svh_vecs[j].ret = "OK"
        /\ svh_vecs[b].ret = "ECANCELED"

(***************************************************************************)
(* Part IV: operators and actions (xfs_exch_range, xfs_xchg_range).        *)
(***************************************************************************)
\* xfs_exch_range_check_fresh that compares the inode number and the
\* modification time only
check_fresh_ignores_ctime(inode2, r) ==
    IF /\ "FILE2_FRESH" \in r.flags
       /\ \/ r.file2_ino # inode2.ino
          \/ r.file2_mtime # inode2.mtime
    THEN "EBUSY"
    ELSE "OK"

\* xfs_exch_range_check_fresh (tv_sec and tv_nsec are one value here)
xfs_exch_range_check_fresh(inode2, r) ==
    IF /\ "FILE2_FRESH" \in r.flags
       /\ \/ r.file2_ino # inode2.ino
          \/ r.file2_ctime # inode2.ctime
          \/ r.file2_mtime # inode2.mtime
    THEN "EBUSY"
    ELSE "OK"

\* the tail of xfs_exch_range_checks, from the test of the length's
\* alignment on; len is fxr->length after the TO_EOF adjustment
exch_range_checks_tail(inode1, inode2, r, len, blocksize) ==
    LET size1 == inode1.size
        size2 == inode2.size
        off1 == r.file1_offset
        off2 == r.file2_offset
        blen0 == IF off2 + len < size2 THEN RoundDown(len, blocksize)
                 ELSE len
        blen == IF off1 + blen0 < size1 THEN RoundDown(blen0, blocksize)
                ELSE blen0
    IN  IF /\ off1 + len # size1
           /\ off2 + len # size2
           /\ ~IS_ALIGNED(len, blocksize)
        THEN "EINVAL"
        ELSE IF xfs_exch_range_check_fresh(inode2, r) # "OK"
        THEN xfs_exch_range_check_fresh(inode2, r)
        ELSE IF IS_ALIGNED(len, blocksize) THEN "OK"
        ELSE IF blen = len THEN "OK"
        ELSE "EINVAL"

\* xfs_exch_range_checks without the test of the offsets' alignment
exch_range_checks_unaligned(inode1, inode2, r, blocksize, limit) ==
    LET size1 == inode1.size
        size2 == inode2.size
        off1 == r.file1_offset
        off2 == r.file2_offset
        len == IF "TO_EOF" \in r.flags
               THEN Max(size1 - off1, size2 - off2) ELSE r.length
        result(e) == [error |-> e, length |-> len]
    IN  IF "immutable" \in {inode1.special, inode2.special}
        THEN [error |-> "EPERM", length |-> r.length]
        ELSE IF "swapfile" \in {inode1.special, inode2.special}
        THEN [error |-> "ETXTBSY", length |-> r.length]
        ELSE IF off1 > size1 \/ off2 > size2
        THEN [error |-> "EINVAL", length |-> r.length]
        ELSE IF /\ "FULL_FILES" \in r.flags
                /\ \/ off1 # 0
                   \/ off2 # 0
                   \/ r.length # size1
                   \/ r.length # size2
        THEN [error |-> "EDOM", length |-> r.length]
        ELSE IF off1 + len < off1 \/ off2 + len < off2
        THEN result("EINVAL")
        ELSE IF /\ "TO_EOF" \notin r.flags
                /\ (off1 + len > size1 \/ off2 + len > size2)
        THEN result("EINVAL")
        ELSE IF limit # "OK" THEN result(limit)
        ELSE result(exch_range_checks_tail(inode1, inode2, r, len,
                                           blocksize))

\* xfs_exch_range_checks that compares the length of a FULL_FILES request
\* with the size of file1 only
exch_range_checks_full_file1(inode1, inode2, r, blocksize, limit) ==
    LET size1 == inode1.size
        size2 == inode2.size
        off1 == r.file1_offset
        off2 == r.file2_offset
        len == IF "TO_EOF" \in r.flags
               THEN Max(size1 - off1, size2 - off2) ELSE r.length
        result(e) == [error |-> e, length |-> len]
    IN  IF "immutable" \in {inode1.special, inode2.special}
        THEN [error |-> "EPERM", length |-> r.length]
        ELSE IF "swapfile" \in {inode1.special, inode2.special}
        THEN [error |-> "ETXTBSY", length |-> r.length]
        ELSE IF off1 > size1 \/ off2 > size2
        THEN [error |-> "EINVAL", length |-> r.length]
        ELSE IF /\ "FULL_FILES" \in r.flags
                /\ \/ off1 # 0
                   \/ off2 # 0
                   \/ r.length # size1
        THEN [error |-> "EDOM", length |-> r.length]
        ELSE IF ~IS_ALIGNED(off1, blocksize) \/ ~IS_ALIGNED(off2, blocksize)
        THEN result("EINVAL")
        ELSE IF off1 + len < off1 \/ off2 + len < off2
        THEN result("EINVAL")
        ELSE IF /\ "TO_EOF" \notin r.flags
                /\ (off1 + len > size1 \/ off2 + len > size2)
        THEN result("EINVAL")
        ELSE IF limit # "OK" THEN result(limit)
        ELSE result(exch_range_checks_tail(inode1, inode2, r, len,
                                           blocksize))

\* xfs_exch_range_checks: the error and fxr->length as the function leaves
\* it; limit is the result of generic_write_check_limits.  The two inodes
\* differ, so the test for overlapping ranges of one file never fires.
xfs_exch_range_checks(inode1, inode2, r, blocksize, limit) ==
    LET size1 == inode1.size
        size2 == inode2.size
        off1 == r.file1_offset
        off2 == r.file2_offset
        len == IF "TO_EOF" \in r.flags
               THEN Max(size1 - off1, size2 - off2) ELSE r.length
        result(e) == [error |-> e, length |-> len]
    IN  IF "immutable" \in {inode1.special, inode2.special}
        THEN [error |-> "EPERM", length |-> r.length]
        ELSE IF "swapfile" \in {inode1.special, inode2.special}
        THEN [error |-> "ETXTBSY", length |-> r.length]
        ELSE IF off1 > size1 \/ off2 > size2
        THEN [error |-> "EINVAL", length |-> r.length]
        ELSE IF /\ "FULL_FILES" \in r.flags
                /\ \/ off1 # 0
                   \/ off2 # 0
                   \/ r.length # size1
                   \/ r.length # size2
        THEN [error |-> "EDOM", length |-> r.length]
        ELSE IF ~IS_ALIGNED(off1, blocksize) \/ ~IS_ALIGNED(off2, blocksize)
        THEN result("EINVAL")
        ELSE IF off1 + len < off1 \/ off2 + len < off2
        THEN result("EINVAL")
        ELSE IF /\ "TO_EOF" \notin r.flags
                /\ (off1 + len > size1 \/ off2 + len > size2)
        THEN result("EINVAL")
        ELSE IF limit # "OK" THEN result(limit)
        ELSE result(exch_range_checks_tail(inode1, inode2, r, len,
                                           blocksize))

\* a grab of the log assistance that treats every caller as one that does
\* not require it
log_assist_never_forced(m, force, feat) ==
    IF m.logswapext THEN [error |-> "OK", use_logging |-> TRUE]
    ELSE [error |-> "OK", use_logging |-> FALSE]

\* xfs_xchg_range_grab_log_assist: the error and *use_logging; feat is the
\* result of xfs_add_incompat_log_feature
xfs_xchg_range_grab_log_assist(m, force, feat) ==
    IF m.logswapext THEN [error |-> "OK", use_logging |-> TRUE]
    ELSE IF ~force THEN [error |-> "OK", use_logging |-> FALSE]
    ELSE IF ~m.bigtime THEN [error |-> "EOPNOTSUPP", use_logging |-> FALSE]
    ELSE IF feat # "OK" THEN [error |-> feat, use_logging |-> FALSE]
    ELSE [error |-> "OK", use_logging |-> TRUE]

\* the checks of __xfs_exch_range and xfs_file_xchg_range that come before
\* xfs_xchg_range_prep; early is the result of those on the files and the
\* mount (-EXDEV, -EISDIR, -EBADF, -EIO after a shutdown, ...)
exch_range_entry(m, r, early, feat) ==
    IF {"FULL_FILES", "TO_EOF"} \subseteq r.flags THEN "EINVAL"
    ELSE IF early # "OK" THEN early
    ELSE xfs_xchg_range_grab_log_assist(m, "NONATOMIC" \notin r.flags,
                                        feat).error

\* xfs_xchg_range: the swapext request made of the exchange request
xchg_req(r, xchg_flags) ==
    [startoff1 |-> XFS_B_TO_FSBT(r.file1_offset),
     startoff2 |-> XFS_B_TO_FSBT(r.file2_offset),
     blockcount |-> XFS_B_TO_FSB(r.length),
     req_flags |->
        (IF "TO_EOF" \in r.flags THEN {"SET_SIZES"} ELSE {})
        \cup (IF "LOGGED" \in xchg_flags THEN {"LOGGED"} ELSE {})]

\* mapped blocks of a file in a range of blocks
MappedIn(f, start, count) ==
    Cardinality({b \in FileBlocks :
        b >= start /\ b < start + count /\ f.map[b] # "hole"})

\* xfs_xchg_range_reserve_quota that forgets QRETRY_IP2
reserve_quota_forgets_ip2(m, ddelta, r1, r2, rf) ==
    LET over == {"EDQUOT", "ENOSPC"}
        q1 == IF ddelta > 0 /\ r1 \in over THEN {1} ELSE {}
    IN  IF ~m.quota THEN [error |-> "OK", qretry |-> {}]
        ELSE IF ddelta > 0 /\ r1 \notin over \cup {"OK"}
        THEN [error |-> r1, qretry |-> q1]
        ELSE IF ddelta < 0 /\ r2 # "OK"
        THEN [error |-> r2, qretry |-> q1]
        ELSE IF q1 # {} THEN [error |-> r1, qretry |-> q1]
        ELSE [error |-> rf, qretry |-> q1]

\* xfs_xchg_range_reserve_quota: the error and *qretry.  ddelta is
\* ip2_bcount - ip1_bcount (rdelta is 0: no realtime files); r1 and r2 are
\* the results of the reservations for ip1 and ip2, rf that of the forced
\* reservations.  The two files have different dquots.
xfs_xchg_range_reserve_quota(m, ddelta, r1, r2, rf) ==
    LET over == {"EDQUOT", "ENOSPC"}
        q1 == IF ddelta > 0 /\ r1 \in over THEN {1} ELSE {}
        q2 == IF ddelta < 0 /\ r2 \in over THEN {2} ELSE {}
    IN  IF ~m.quota THEN [error |-> "OK", qretry |-> {}]
        ELSE IF ddelta > 0 /\ r1 \notin over \cup {"OK"}
        THEN [error |-> r1, qretry |-> q1]
        ELSE IF ddelta < 0 /\ r2 # "OK"
        THEN [error |-> r2, qretry |-> q1 \cup q2]
        ELSE IF q1 # {} THEN [error |-> r1, qretry |-> q1]
        ELSE [error |-> rf, qretry |-> q1 \cup q2]

xfs_xchg_use_swapext(m, xchg_flags) ==
    IF "LOGGED" \in xchg_flags THEN TRUE ELSE m.nonatomic

xfs_xchg_use_forkswap(r, ip1, ip2) ==
    IF "NONATOMIC" \notin r.flags THEN FALSE
    ELSE IF "FULL_FILES" \notin r.flags THEN FALSE
    ELSE IF "TO_EOF" \in r.flags THEN FALSE
    ELSE IF r.file1_offset # 0 \/ r.file2_offset # 0 THEN FALSE
    ELSE IF r.length # ip1.size THEN FALSE
    ELSE IF r.length # ip2.size THEN FALSE
    ELSE TRUE

\* the choice of the strategy in xfs_xchg_range that never gives up
xchg_strategy_always_swapext(m, r, xchg_flags, ip1, ip2) ==
    IF xfs_xchg_use_forkswap(r, ip1, ip2) /\ ~m.nonatomic
           /\ "LOGGED" \notin xchg_flags
    THEN "FORKSWAP" ELSE "SWAPEXT"

\* the choice of the strategy in xfs_xchg_range
xchg_strategy(m, r, xchg_flags, ip1, ip2) ==
    IF xfs_xchg_use_swapext(m, xchg_flags) THEN "SWAPEXT"
    ELSE IF xfs_xchg_use_forkswap(r, ip1, ip2) THEN "FORKSWAP"
    ELSE "neither"

\* xfs_swapext, run to completion through n of the request's blocks: the
\* mappings of the two ranges are exchanged block by block
SwapMaps(f, q, n) ==
    LET in1(b) == b >= q.startoff1 /\ b < q.startoff1 + n
        in2(b) == b >= q.startoff2 /\ b < q.startoff2 + n
    IN  [f EXCEPT
            ![1].map = [b \in FileBlocks |->
                IF in1(b) THEN f[2].map[b - q.startoff1 + q.startoff2]
                ELSE f[1].map[b]],
            ![2].map = [b \in FileBlocks |->
                IF in2(b) THEN f[1].map[b - q.startoff2 + q.startoff1]
                ELSE f[2].map[b]]]

\* xfs_swap_extent_forks: the two data forks change places
xfs_swap_extent_forks(f) ==
    [f EXCEPT ![1].map = f[2].map, ![2].map = f[1].map]

\* the exchange of the sizes that writes file2's new size into both files
xchg_isize_without_temp(f, r) ==
    IF "TO_EOF" \in r.flags
    THEN [f EXCEPT ![2].size = f[1].size]
    ELSE f

\* the end of xfs_xchg_range: a TO_EOF exchange swaps the files' sizes
xchg_isize(f, r) ==
    IF "TO_EOF" \in r.flags
    THEN [f EXCEPT ![2].size = f[1].size, ![1].size = f[2].size]
    ELSE f

\* xfs_trans_ichgtime of both files at time t
xchg_ichgtime(f, t) ==
    [f EXCEPT ![1].ctime = t, ![1].mtime = t, ![2].ctime = t, ![2].mtime = t]

\* the environment's faults among the results drawn for a step
Faults(results) ==
    Cardinality({i \in 1..Len(results) : results[i] # "OK"})

\* the files before the exchange, for a file another task has touched
Touched(f, t, what) ==
    IF what = "ctime" THEN [f EXCEPT ![2].ctime = t]
    ELSE [f EXCEPT ![2].ctime = t, ![2].mtime = t]

\* the requests a caller may make now: any request at first, and after an
\* exchange that succeeded the same exchange again
NextRequests ==
    IF xpc # "idle" \/ xhist.ncalls >= MaxCalls THEN {}
    ELSE IF xhist.ncalls = 0 THEN XchgRequests
    ELSE IF xhist.prev # "OK" THEN {}
    ELSE {r \in XchgRequests :
            /\ r.file1_offset = xhist.fxr0.file1_offset
            /\ r.file2_offset = xhist.fxr0.file2_offset
            /\ r.length = xhist.req0.length
            /\ r.flags = xhist.fxr0.flags}

XchgInit ==
    /\ xpc = "idle"
    /\ fxr = NoFxr
    /\ xmp \in XchgMounts
    /\ \E s1 \in XchgBlockSize..MaxFileBytes,
          s2 \in XchgBlockSize..MaxFileBytes,
          sp \in {<<"none", "none">>, <<"immutable", "none">>,
                  <<"none", "swapfile">>},
          pv \in BOOLEAN :
        /\ sp # <<"none", "none">> => xmp.logswapext
        /\ pv => (sp = <<"none", "none">> /\ xmp.logswapext)
        /\ xf = [i \in {1, 2} |->
                    NewFile(i, IF i = 1 THEN "a" ELSE "b",
                            IF i = 1 THEN s1 ELSE s2, sp[i], pv)]
    /\ xf0 = xf
    /\ xf00 = xf
    /\ xtp = "none"
    /\ xilock = FALSE
    /\ xiolock = FALSE
    /\ xflags = {}
    /\ xreq = NoXreq
    /\ retried = FALSE
    /\ xerror = "OK"
    /\ now = 0
    /\ xhist = NoXhist
    /\ SxiQuiet
    /\ ScrubQuiet
    /\ ScrubvQuiet
    /\ XfileQuiet
    /\ XfbQuiet
    /\ XbmQuiet
    /\ SxiRefQuiet
    /\ CancelQuiet

\* an entry that goes on to the checks without taking the IOLOCKs
xchg_call_without_iolock(r, early, lockerr) ==
    LET r0 == MakeFxr(r, xf[2])
        head == IF {"FULL_FILES", "TO_EOF"} \subseteq r.flags THEN "EINVAL"
                ELSE early
        nf == Faults(<<early, lockerr>>)
    IN  /\ xpc = "idle"
        /\ xhist.ncalls < MaxCalls
        /\ r \in NextRequests
        /\ xhist.nfault + nf <= MaxFaults
        /\ lockerr # "OK" =>
                /\ ~({"FULL_FILES", "TO_EOF"} \subseteq r.flags)
                /\ early = "OK"
        /\ fxr' = r0
        /\ xflags' = {}
        /\ xerror' = head
        /\ xpc' = IF head = "OK" THEN "prep" ELSE "returned"
        /\ xiolock' = FALSE
        /\ xf0' = xf
        /\ xf00' = IF xhist.ncalls = 0 THEN xf ELSE xf00
        /\ xhist' = [xhist EXCEPT
                !.ncalls = @ + 1, !.fxr0 = r0, !.req0 = r, !.pre = head,
                !.nfault = @ + nf,
                !.stale = FALSE, !.overq = <<>>, !.nretry = 0,
                !.reclaimed = {}, !.failing = {}, !.strategy = "none",
                !.nalloc = 0, !.ncancel = 0, !.ncommit = 0, !.ndone = 0,
                !.chk = "none", !.niolock = 0, !.finished = FALSE,
                !.eqlen = IF xhist.ncalls = 0
                          THEN \/ "TO_EOF" \notin r.flags
                               \/ xf[1].size - r.file1_offset
                                    = xf[2].size - r.file2_offset
                          ELSE @]
        /\ UNCHANGED <<xf, xmp, xtp, xilock, xreq, retried, now>>
        /\ UNCHANGED xchgOther

\* xfs_exch_range down to xfs_ilock2_io_mmap in xfs_file_xchg_range: the
\* checks of the flags, the files and the mount (early), then the IOLOCK
\* and MMAPLOCK of both files (lockerr).  A second call repeats the
\* exchange of the first.
XchgCall(r, early, lockerr) ==
    LET r0 == MakeFxr(r, xf[2])
        head == IF {"FULL_FILES", "TO_EOF"} \subseteq r.flags THEN "EINVAL"
                ELSE IF early # "OK" THEN early
                ELSE lockerr
        nf == Faults(<<early, lockerr>>)
    IN  /\ xpc = "idle"
        /\ xhist.ncalls < MaxCalls
        /\ r \in NextRequests
        /\ xhist.nfault + nf <= MaxFaults
        /\ lockerr # "OK" =>
                /\ ~({"FULL_FILES", "TO_EOF"} \subseteq r.flags)
                /\ early = "OK"
        /\ fxr' = r0
        /\ xflags' = {}
        /\ xerror' = head
        /\ xpc' = IF head = "OK" THEN "prep" ELSE "returned"
        /\ xiolock' = (head = "OK")
        /\ xf0' = xf
        /\ xf00' = IF xhist.ncalls = 0 THEN xf ELSE xf00
        /\ xhist' = [xhist EXCEPT
                !.ncalls = @ + 1, !.fxr0 = r0, !.req0 = r, !.pre = head,
                !.nfault = @ + nf,
                !.stale = FALSE, !.overq = <<>>, !.nretry = 0,
                !.reclaimed = {}, !.failing = {}, !.strategy = "none",
                !.nalloc = 0, !.ncancel = 0, !.ncommit = 0, !.ndone = 0,
                !.chk = "none", !.finished = FALSE,
                !.niolock = IF head = "OK" THEN 1 ELSE 0,
                !.eqlen = IF xhist.ncalls = 0
                          THEN \/ "TO_EOF" \notin r.flags
                               \/ xf[1].size - r.file1_offset
                                    = xf[2].size - r.file2_offset
                          ELSE @]
        /\ UNCHANGED <<xf, xmp, xtp, xilock, xreq, retried, now>>
        /\ UNCHANGED xchgOther

\* xfs_file_xchg_range from the grab of the log assistance to the end of
\* xfs_xchg_range_prep, with the IOLOCKs held: the log assistance (feat),
\* xfs_exch_range_checks (limit) and the waits, flushes and dquot
\* attachments (prep); a failure drops the IOLOCKs and returns
XchgPrep(limit, prep, feat) ==
    LET pre == exch_range_entry(xmp, fxr, "OK", feat)
        nf == Faults(<<limit, prep, feat>>)
        la == xfs_xchg_range_grab_log_assist(xmp,
                                             "NONATOMIC" \notin fxr.flags,
                                             feat)
        chk == xfs_exch_range_checks(xf[1], xf[2], fxr, XchgBlockSize, limit)
        err == IF pre # "OK" THEN pre
               ELSE IF chk.error # "OK" THEN chk.error
               ELSE IF chk.length = 0 THEN "OK"
               ELSE prep
    IN  /\ xpc = "prep"
        /\ xhist.nfault + nf <= MaxFaults
        /\ feat # "OK" =>
                /\ "NONATOMIC" \notin fxr.flags
                /\ ~xmp.logswapext
                /\ xmp.bigtime
        /\ fxr' = IF pre = "OK" THEN [fxr EXCEPT !.length = chk.length]
                  ELSE fxr
        /\ xflags' = IF pre = "OK" /\ la.use_logging THEN {"LOGGED"} ELSE {}
        /\ xmp' = IF pre = "OK" /\ la.use_logging
                  THEN [xmp EXCEPT !.logswapext = TRUE] ELSE xmp
        /\ xerror' = err
        /\ xpc' = IF err = "OK" THEN "prepped" ELSE "returned"
        /\ xiolock' = (err = "OK")
        /\ xhist' = [xhist EXCEPT
                !.pre = pre,
                !.chk = IF pre = "OK" THEN chk.error ELSE "none",
                !.nfault = @ + nf]
        /\ UNCHANGED <<xf, xf0, xf00, xtp, xilock, xreq, retried, now>>
        /\ UNCHANGED xchgOther

\* the head of xfs_xchg_range: the swapext request and its estimate
XchgEstimate(esterr) ==
    /\ xpc = "prepped"
    /\ xhist.nfault + Faults(<<esterr>>) <= MaxFaults
    /\ xhist' = [xhist EXCEPT !.nfault = @ + Faults(<<esterr>>)]
    /\ xreq' = xchg_req(fxr, xflags)
    /\ retried' = FALSE
    /\ xerror' = esterr
    /\ xpc' = IF esterr = "OK" THEN "retry" ELSE "returned"
    /\ xiolock' = (xiolock /\ xpc' # "returned")
    /\ UNCHANGED <<fxr, xf, xf0, xf00, xmp, xtp, xilock, xflags, now>>
    /\ UNCHANGED xchgOther

\* retry: of xfs_xchg_range: the transaction, the ILOCKs, the freshness
\* check under the locks and xfs_swapext_check_extents
XchgLock(allocerr, exterr) ==
    LET fresh == xfs_exch_range_check_fresh(xf[2], fxr)
        err == IF fresh # "OK" THEN fresh ELSE exterr
    IN  /\ xpc = "retry"
        /\ xhist.nfault + Faults(<<allocerr, exterr>>) <= MaxFaults
        /\ IF allocerr # "OK"
           THEN /\ exterr = "OK"
                /\ xerror' = allocerr
                /\ xpc' = "returned"
                /\ xhist' = [xhist EXCEPT !.nfault = @ + 1]
                /\ UNCHANGED <<xtp, xilock>>
           ELSE /\ xerror' = err
                /\ xpc' = IF err = "OK" THEN "locked" ELSE "returned"
                /\ xtp' = IF err = "OK" THEN "open" ELSE "none"
                /\ xilock' = (err = "OK")
                /\ xhist' = [xhist EXCEPT
                        !.nalloc = @ + 1,
                        !.nfault = @ + Faults(<<exterr>>),
                        !.ncancel = IF err = "OK" THEN @ ELSE @ + 1,
                        !.stale = /\ "FILE2_FRESH" \in fxr.flags
                                  /\ <<fxr.file2_ino, fxr.file2_ctime,
                                       fxr.file2_mtime>>
                                     # <<xf[2].ino, xf[2].ctime,
                                         xf[2].mtime>>]
        /\ xiolock' = (xiolock /\ xpc' # "returned")
        /\ UNCHANGED <<fxr, xf, xf0, xf00, xmp, xflags, xreq, retried, now>>
        /\ UNCHANGED xchgOther

\* the quota reservation of xfs_xchg_range and the retry after an
\* over-quota failure
XchgQuota(r1, r2, rf) ==
    LET ddelta == MappedIn(xf[2], xreq.startoff2, xreq.blockcount)
                    - MappedIn(xf[1], xreq.startoff1, xreq.blockcount)
        res == xfs_xchg_range_reserve_quota(xmp, ddelta, r1, r2, rf)
        over == res.error \in {"EDQUOT", "ENOSPC"}
        failing == (IF ddelta > 0 /\ r1 \in {"EDQUOT", "ENOSPC"}
                    THEN {1} ELSE {})
                   \cup (IF ddelta < 0 /\ r2 \in {"EDQUOT", "ENOSPC"}
                         THEN {2} ELSE {})
    IN  /\ xpc = "locked"
        /\ rf # "OK" => xhist.nfault < MaxFaults
        /\ IF over /\ ~retried
           THEN /\ xtp' = "none"
                /\ xilock' = FALSE
                /\ retried' = TRUE
                /\ xpc' = "retry"
                /\ UNCHANGED xerror
                /\ xhist' = [xhist EXCEPT
                        !.ncancel = @ + 1, !.nretry = @ + 1,
                        !.overq = Append(@, res.error),
                        !.reclaimed = @ \cup res.qretry,
                        !.failing = @ \cup failing]
           ELSE IF res.error # "OK"
           THEN /\ xtp' = "none"
                /\ xilock' = FALSE
                /\ xerror' = res.error
                /\ xpc' = "returned"
                /\ UNCHANGED retried
                /\ xhist' = [xhist EXCEPT
                        !.ncancel = @ + 1,
                        !.nfault = IF over THEN @ ELSE @ + Faults(<<rf>>),
                        !.overq = IF over THEN Append(@, res.error) ELSE @]
           ELSE /\ xpc' = "reserved"
                /\ UNCHANGED <<xtp, xilock, xerror, retried, xhist>>
        /\ xiolock' = (xiolock /\ xpc' # "returned")
        /\ UNCHANGED <<fxr, xf, xf0, xf00, xmp, xflags, xreq, now>>
        /\ UNCHANGED xchgOther

\* the choice of the strategy and the end of a dry run, which returns 0
\* to xfs_file_xchg_range
XchgStrategy(fmterr) ==
    LET strategy == xchg_strategy(xmp, fxr, xflags, xf[1], xf[2])
        err == IF strategy = "neither" THEN "EOPNOTSUPP"
               ELSE IF strategy = "FORKSWAP" THEN fmterr
               ELSE "OK"
        stop == err # "OK" \/ "DRY_RUN" \in fxr.flags
    IN  /\ xpc = "reserved"
        /\ xhist.nfault + Faults(<<fmterr>>) <= MaxFaults
        /\ fmterr # "OK" => strategy = "FORKSWAP"
        /\ xerror' = err
        /\ xpc' = IF err # "OK" THEN "returned"
                  ELSE IF stop THEN "finish" ELSE "apply"
        /\ xiolock' = (xiolock /\ xpc' # "returned")
        /\ xtp' = IF stop THEN "none" ELSE xtp
        /\ xilock' = IF stop THEN FALSE ELSE xilock
        /\ xhist' = [xhist EXCEPT
                !.strategy = strategy,
                !.nfault = @ + Faults(<<fmterr>>),
                !.ncancel = IF stop THEN @ + 1 ELSE @]
        /\ UNCHANGED <<fxr, xf, xf0, xf00, xmp, xflags, xreq, retried, now>>
        /\ UNCHANGED xchgOther

\* one block of the ranges of q, the n-th, changes places
SwapBlock(f, q, n) ==
    SwapMaps(f, [q EXCEPT !.startoff1 = @ + n, !.startoff2 = @ + n], 1)

\* the exchange itself: the timestamps and the swap.  The fork swap
\* (swaperr is the result of xfs_swap_extent_forks) is followed by the
\* commit at once (cres); xfs_swapext queues the exchange for the commit
XchgApply(swaperr, cres) ==
    LET stamped == xchg_ichgtime(xf, now + 1)
        forks == xhist.strategy = "FORKSWAP"
        err == IF swaperr # "OK" THEN swaperr ELSE cres
    IN  /\ xpc = "apply"
        /\ xhist.nfault + Faults(<<swaperr, cres>>) <= MaxFaults
        /\ ~forks => swaperr = "OK" /\ cres = "OK"
        /\ now' = now + 1
        /\ IF forks
           THEN /\ xf' = IF swaperr # "OK" THEN stamped
                         ELSE IF cres # "OK" THEN xfs_swap_extent_forks(stamped)
                         ELSE xchg_isize(xfs_swap_extent_forks(stamped), fxr)
                /\ xerror' = err
                /\ xtp' = "none"
                /\ xilock' = FALSE
                /\ xpc' = IF err = "OK" THEN "finish" ELSE "returned"
                /\ xhist' = [xhist EXCEPT
                        !.nfault = @ + Faults(<<swaperr, cres>>),
                        !.ncancel = IF swaperr # "OK" THEN @ + 1 ELSE @,
                        !.ncommit = IF swaperr # "OK" THEN @ ELSE @ + 1]
           ELSE /\ xf' = stamped
                /\ xpc' = "commit"
                /\ UNCHANGED <<xerror, xtp, xilock, xhist>>
        /\ xiolock' = (xiolock /\ xpc' # "returned")
        /\ UNCHANGED <<fxr, xf0, xf00, xmp, xflags, xreq, retried>>
        /\ UNCHANGED xchgOther

\* a commit that drops the ILOCKs whenever it rolls to the next chunk
commit_unlocks_between_chunks(cres) ==
    LET n == xhist.ndone
        last == n + 1 >= xreq.blockcount
        one == IF n < xreq.blockcount THEN SwapBlock(xf, xreq, n) ELSE xf
    IN  /\ xpc = "commit"
        /\ xhist.nfault + Faults(<<cres>>) <= MaxFaults
        /\ IF cres # "OK"
           THEN /\ xerror' = cres
                /\ xtp' = "none"
                /\ xilock' = FALSE
                /\ xpc' = "returned"
                /\ xhist' = [xhist EXCEPT !.nfault = @ + 1, !.ncommit = @ + 1]
                /\ UNCHANGED xf
           ELSE IF last
           THEN /\ xf' = xchg_isize(one, fxr)
                /\ xerror' = "OK"
                /\ xtp' = "none"
                /\ xilock' = FALSE
                /\ xpc' = "finish"
                /\ xhist' = [xhist EXCEPT !.ndone = xreq.blockcount,
                                          !.ncommit = @ + 1]
           ELSE /\ xf' = one
                /\ xilock' = FALSE
                /\ xhist' = [xhist EXCEPT !.ndone = @ + 1]
                /\ UNCHANGED <<xerror, xtp, xpc>>
        /\ xiolock' = (xiolock /\ xpc' # "returned")
        /\ UNCHANGED <<fxr, xf0, xf00, xmp, xflags, xreq, retried, now>>
        /\ UNCHANGED xchgOther

\* xfs_trans_commit of an exchange that xfs_swapext queued, and the sizes:
\* each step finishes one chunk (a block here) and rolls the transaction,
\* the inodes stay joined and locked; a commit that fails (cres) leaves the
\* blocks exchanged so far and shuts the filesystem down
XchgCommit(cres) ==
    LET n == xhist.ndone
        last == n + 1 >= xreq.blockcount
        one == IF n < xreq.blockcount THEN SwapBlock(xf, xreq, n) ELSE xf
    IN  /\ xpc = "commit"
        /\ xhist.nfault + Faults(<<cres>>) <= MaxFaults
        /\ IF cres # "OK"
           THEN /\ xerror' = cres
                /\ xtp' = "none"
                /\ xilock' = FALSE
                /\ xpc' = "returned"
                /\ xhist' = [xhist EXCEPT !.nfault = @ + 1, !.ncommit = @ + 1]
                /\ UNCHANGED xf
           ELSE IF last
           THEN /\ xf' = xchg_isize(one, fxr)
                /\ xerror' = "OK"
                /\ xtp' = "none"
                /\ xilock' = FALSE
                /\ xpc' = "finish"
                /\ xhist' = [xhist EXCEPT !.ndone = xreq.blockcount,
                                          !.ncommit = @ + 1]
           ELSE /\ xf' = one
                /\ xhist' = [xhist EXCEPT !.ndone = @ + 1]
                /\ UNCHANGED <<xerror, xtp, xilock, xpc>>
        /\ xiolock' = (xiolock /\ xpc' # "returned")
        /\ UNCHANGED <<fxr, xf0, xf00, xmp, xflags, xreq, retried, now>>
        /\ UNCHANGED xchgOther

\* another task changes the attributes of file2 (its ctime, or ctime and
\* mtime) while the exchange does not hold the ILOCKs; only an exchange
\* with a snapshot of file2 can tell
XchgTouch(what) ==
    /\ xpc \in {"prepped", "retry"}
    /\ "FILE2_FRESH" \in fxr.flags
    /\ ~xilock
    /\ xhist.ntouch < MaxTouches
    /\ now' = now + 1
    /\ xf' = Touched(xf, now + 1, what)
    /\ xf0' = Touched(xf0, now + 1, what)
    /\ xf00' = Touched(xf00, now + 1, what)
    /\ xhist' = [xhist EXCEPT !.ntouch = @ + 1]
    /\ UNCHANGED <<xpc, fxr, xmp, xtp, xilock, xiolock, xflags, xreq, retried,
                   xerror>>
    /\ UNCHANGED xchgOther

\* the caller has the result; it may call again
XchgReturn ==
    /\ xpc = "returned"
    /\ xpc' = "idle"
    /\ xhist' = [xhist EXCEPT
            !.prev = IF xhist.prev = "none" THEN xerror ELSE @]
    /\ UNCHANGED <<fxr, xf, xf0, xf00, xmp, xtp, xilock, xiolock, xflags,
                   xreq, retried, xerror, now>>
    /\ UNCHANGED xchgOther

\* xfs_exch_range_finish: file_remove_privs on file1, then on file2 (res1,
\* res2 are their results): the files afterwards and the error
xfs_exch_range_finish(f, res1, res2) ==
    IF res1 # "OK" THEN [f |-> f, error |-> res1]
    ELSE IF res2 # "OK"
    THEN [f |-> [f EXCEPT ![1].privs = FALSE], error |-> res2]
    ELSE [f |-> [f EXCEPT ![1].privs = FALSE, ![2].privs = FALSE],
          error |-> "OK"]

\* the end of xfs_file_xchg_range after xfs_xchg_range returned 0:
\* xfs_exch_range_finish, the release of the log assistance and of the
\* IOLOCKs
XchgFinish(res1, res2) ==
    LET fin == xfs_exch_range_finish(xf, res1, res2)
    IN  /\ xpc = "finish"
        /\ xhist.nfault + Faults(<<res1, res2>>) <= MaxFaults
        /\ res1 # "OK" => xf[1].privs
        /\ res2 # "OK" => xf[2].privs
        /\ xf' = fin.f
        /\ xerror' = fin.error
        /\ xiolock' = FALSE
        /\ xpc' = "returned"
        /\ xhist' = [xhist EXCEPT !.nfault = @ + Faults(<<res1, res2>>),
                                  !.finished = TRUE]
        /\ UNCHANGED <<fxr, xf0, xf00, xmp, xtp, xilock, xflags, xreq,
                       retried, now>>
        /\ UNCHANGED xchgOther

XchgNext ==
    \/ \E r \in NextRequests, early \in {"OK", "EXDEV"},
          lockerr \in {"OK", "EINTR"} :
            XchgCall(r, early, lockerr)
    \/ \E limit \in {"OK", "EFBIG"}, prep \in {"OK", "EIO"},
          feat \in {"OK", "EIO"} :
            XchgPrep(limit, prep, feat)
    \/ \E esterr \in {"OK", "ENOMEM"} : XchgEstimate(esterr)
    \/ \E allocerr \in {"OK", "ENOSPC"}, exterr \in {"OK", "EFSCORRUPTED"} :
            XchgLock(allocerr, exterr)
    \/ \E r1 \in {"OK", "EDQUOT", "ENOSPC", "EIO"},
          r2 \in {"OK", "EDQUOT", "EIO"}, rf \in {"OK", "ENOMEM"} :
            XchgQuota(r1, r2, rf)
    \/ \E fmterr \in {"OK", "EINVAL"} : XchgStrategy(fmterr)
    \/ \E swaperr \in {"OK", "EIO"}, cres \in {"OK", "EIO"} :
            XchgApply(swaperr, cres)
    \/ \E cres \in {"OK", "EIO"} : XchgCommit(cres)
    \/ \E what \in {"ctime", "both"} : XchgTouch(what)
    \/ \E res1 \in {"OK", "EIO"}, res2 \in {"OK", "EIO"} :
            XchgFinish(res1, res2)
    \/ XchgReturn

SpecXchg == XchgInit /\ [][XchgNext]_<<xchgVars, xchgOther>>

(***************************************************************************)
(* Part IV properties.                                                     *)
(***************************************************************************)
\* the block maps of both files are those the call started with
MapsUnchanged == xf[1].map = xf0[1].map /\ xf[2].map = xf0[2].map

\* C14: when the request carries a snapshot of file2 (inode number, change
\* time, modification time) and file2 does not match it at the check made
\* with the ILOCKs held, the exchange returns EBUSY and no mapping of
\* either file has been exchanged.
C14_StaleSnapshotIsBusy ==
    (xpc = "returned" /\ xhist.stale) =>
        /\ xerror = "EBUSY"
        /\ MapsUnchanged
        /\ xhist.ncommit = 0

\* file2 was changed after the checks made before the locks had passed
C14_Witness ==
    /\ xpc = "returned"
    /\ xhist.stale
    /\ xhist.ntouch = 1
    /\ xhist.nalloc = 1
    /\ xerror = "EBUSY"

\* neither xfs_swapext nor the fork swap can serve the request
NeitherApplies ==
    /\ "LOGGED" \notin xflags
    /\ ~xmp.nonatomic
    /\ ~ /\ {"NONATOMIC", "FULL_FILES"} \subseteq fxr.flags
         /\ "TO_EOF" \notin fxr.flags
         /\ fxr.file1_offset = 0
         /\ fxr.file2_offset = 0
         /\ fxr.length = xf0[1].size
         /\ fxr.length = xf0[2].size

\* C15: when the exchange comes to choose its strategy and neither the
\* intent-based exchange nor the fork swap applies, it returns EOPNOTSUPP,
\* its transaction is cancelled, and no mapping, size or timestamp of
\* either file has changed.
C15_UnsupportedChangesNothing ==
    (xpc = "returned" /\ xhist.strategy # "none" /\ NeitherApplies) =>
        /\ xerror = "EOPNOTSUPP"
        /\ xtp = "none"
        /\ xhist.ncancel = xhist.nalloc
        /\ xhist.ncommit = 0
        /\ xf = xf0

C15_Witness ==
    /\ xpc = "returned"
    /\ xhist.strategy = "neither"
    /\ xerror = "EOPNOTSUPP"
    /\ xhist.nalloc = 1
    /\ "DRY_RUN" \notin fxr.flags

\* C16: when an exchange of equal-length ranges has succeeded and the same
\* exchange has succeeded a second time, both files have the byte content
\* they had before the first.
C16_TwiceRestores ==
    (/\ xpc = "returned"
     /\ xhist.ncalls = 2
     /\ xhist.prev = "OK"
     /\ xerror = "OK"
     /\ xhist.eqlen) =>
        /\ FileBytes(xf[1]) = FileBytes(xf00[1])
        /\ FileBytes(xf[2]) = FileBytes(xf00[2])

\* the first exchange changed the content of both files, the second
\* brought it back
C16_Witness ==
    /\ xpc = "returned"
    /\ xhist.ncalls = 2
    /\ xhist.prev = "OK"
    /\ xerror = "OK"
    /\ xhist.eqlen
    /\ xhist.ncommit = 1
    /\ FileBytes(xf0[1]) # FileBytes(xf00[1])
    /\ FileBytes(xf0[2]) # FileBytes(xf00[2])
    /\ FileBytes(xf[1]) = FileBytes(xf00[1])
    /\ FileBytes(xf[2]) = FileBytes(xf00[2])

\* the request as the caller made it
Unaligned1 == xhist.fxr0.file1_offset % XchgBlockSize # 0

Special(kind) == kind \in {xf0[1].special, xf0[2].special}

BeyondEof ==
    \/ xhist.fxr0.file1_offset > xf0[1].size
    \/ xhist.fxr0.file2_offset > xf0[2].size

\* C17 as stated: every request whose file1_offset is not a multiple of
\* the allocation unit is rejected with EINVAL.
C17_UnalignedIsEinval ==
    (xpc = "returned" /\ Unaligned1) => xerror = "EINVAL"

\* C17: every request whose file1_offset is not a multiple of the
\* allocation unit is rejected: with the error of a check that comes
\* before xfs_exch_range_checks if one fails, else with EPERM if a file is
\* immutable, else with ETXTBSY if a file is a swap file, else with EDOM
\* if it is a FULL_FILES request whose offsets are within EOF, and with
\* EINVAL otherwise.
C17_UnalignedIsRejected ==
    (xpc = "returned" /\ Unaligned1) =>
        xerror =
            IF xhist.pre # "OK" THEN xhist.pre
            ELSE IF Special("immutable") THEN "EPERM"
            ELSE IF Special("swapfile") THEN "ETXTBSY"
            ELSE IF "FULL_FILES" \in xhist.fxr0.flags /\ ~BeyondEof
            THEN "EDOM"
            ELSE "EINVAL"

\* the test of the alignment is what rejected the request
C17_Witness ==
    /\ xpc = "returned"
    /\ Unaligned1
    /\ xhist.pre = "OK"
    /\ ~Special("immutable")
    /\ ~Special("swapfile")
    /\ "FULL_FILES" \notin xhist.fxr0.flags
    /\ xhist.fxr0.file1_offset + xhist.fxr0.length <= xf0[1].size
    /\ xerror = "EINVAL"

\* a FULL_FILES request whose length is not the size of both files
FullFilesWrongLength ==
    /\ "FULL_FILES" \in xhist.fxr0.flags
    /\ \/ xhist.fxr0.length # xf0[1].size
       \/ xhist.fxr0.length # xf0[2].size

\* C18 as stated: every FULL_FILES request whose length differs from the
\* size of file1 or of file2 is rejected with EDOM.
C18_WrongLengthIsEdom ==
    (xpc = "returned" /\ FullFilesWrongLength) => xerror = "EDOM"

\* C18: every FULL_FILES request whose length differs from the size of
\* file1 or of file2 is rejected: with the error of a check that comes
\* before xfs_exch_range_checks if one fails (EINVAL when TO_EOF is set as
\* well), else with EPERM if a file is immutable, else with ETXTBSY if a
\* file is a swap file, else with EINVAL if an offset is beyond EOF, and
\* with EDOM otherwise.
C18_WrongLengthIsRejected ==
    (xpc = "returned" /\ FullFilesWrongLength) =>
        xerror =
            IF xhist.pre # "OK" THEN xhist.pre
            ELSE IF Special("immutable") THEN "EPERM"
            ELSE IF Special("swapfile") THEN "ETXTBSY"
            ELSE IF BeyondEof THEN "EINVAL"
            ELSE "EDOM"

\* the length is the size of file1 and not that of file2
C18_Witness ==
    /\ xpc = "returned"
    /\ FullFilesWrongLength
    /\ xhist.fxr0.length = xf0[1].size
    /\ xhist.fxr0.file1_offset = 0
    /\ xhist.fxr0.file2_offset = 0
    /\ xhist.pre = "OK"
    /\ xerror = "EDOM"

\* C19: within one exchange an over-quota failure (EDQUOT or ENOSPC) of
\* the quota reservation is retried exactly once, after the transaction
\* has been cancelled, the ILOCKs dropped and the speculative
\* preallocations of the failing files reclaimed; a second over-quota
\* failure is returned and not retried.
C19_QuotaRetriedOnce ==
    /\ xhist.nretry = IF Len(xhist.overq) >= 1 THEN 1 ELSE 0
    /\ Len(xhist.overq) <= 2
    /\ xhist.nretry = 1 =>
        /\ xhist.failing # {}
        /\ xhist.failing \subseteq xhist.reclaimed
    /\ xpc = "retry" =>
        /\ xtp = "none"
        /\ ~xilock
        /\ xhist.ncancel = xhist.nalloc
    /\ Len(xhist.overq) = 2 =>
        /\ xpc \in {"returned", "idle"}
        /\ xerror = xhist.overq[2]

\* the reservation failed over quota a second time
C19_Witness ==
    /\ xpc = "returned"
    /\ Len(xhist.overq) = 2
    /\ xhist.nretry = 1
    /\ xhist.nalloc = 2
    /\ xhist.ncancel = 2
    /\ xhist.reclaimed = {2}
    /\ xerror = "EDQUOT"

\* the two pairs of files have the same block maps
SameMaps(f, g) ==
    \A i \in {1, 2}, b \in FileBlocks :
        IF f[i].map[b] = "hole" THEN g[i].map[b] = "hole"
        ELSE g[i].map[b] # "hole" /\ f[i].map[b] = g[i].map[b]

\* some but not all of the blocks of the request have changed places
PartlyExchanged ==
    /\ ~SameMaps(xf, xf0)
    /\ ~SameMaps(xf, SwapMaps(xf0, xreq, xreq.blockcount))
    /\ ~SameMaps(xf, xfs_swap_extent_forks(xf0))

\* C27: in every exchange that applies a swap the freshness check that
\* admitted it and the commit happen within one hold of the ILOCKs of both
\* files: from the check to the swap the locks and the transaction are
\* held and file2 still matches the snapshot, the locks are dropped only
\* for the quota retry (which leads back to the check) and at the return,
\* mappings change only under the locks, and while the locks are not held
\* the files are never partly exchanged, unless the commit failed and shut
\* the filesystem down.
C27_OneHoldFromCheckToCommit ==
    [][/\ xpc' \in {"locked", "reserved", "apply"} =>
            /\ xilock'
            /\ xtp' = "open"
            /\ xfs_exch_range_check_fresh(xf'[2], fxr') = "OK"
       /\ xpc' = "commit" => xilock' /\ xtp' = "open"
       /\ (xpc' = "locked" /\ xpc # "locked") => (xpc = "retry" /\ ~xilock)
       /\ (xilock /\ ~xilock') =>
            \/ xpc' \in {"returned", "finish"}
            \/ /\ xpc = "locked"
               /\ xpc' = "retry"
               /\ xhist'.nretry = xhist.nretry + 1
               /\ xf' = xf
       /\ ~SameMaps(xf', xf) =>
            /\ xilock
            /\ xpc \in {"apply", "commit"}
       /\ ~xilock' => (~PartlyExchanged' \/ xerror' # "OK")
      ]_xchgVars

\* an exchange with a snapshot of file2 was admitted a second time after
\* a quota retry and is half-way through its commit with the locks held
C27_Witness ==
    /\ xpc = "commit"
    /\ xilock
    /\ PartlyExchanged
    /\ xhist.ndone = 1
    /\ xhist.nretry = 1
    /\ xhist.nalloc = 2
    /\ "FILE2_FRESH" \in fxr.flags

\* C28: an exchange request without NONATOMIC is carried out only through
\* logged intents: when the log assistance cannot be used or enabled the
\* call has failed with an error and changed nothing, every step of the
\* exchange runs with the LOGGED flag, the strategy is never the fork swap,
\* and mappings change places only under a request that carries LOGGED.
C28_AtomicOnlyThroughLoggedIntents ==
    (xpc \notin {"idle", "prep"} /\ "NONATOMIC" \notin xhist.fxr0.flags) =>
        /\ ~xmp.logswapext =>
                /\ xpc = "returned"
                /\ xerror # "OK"
                /\ SameMaps(xf, xf0)
                /\ xhist.strategy = "none"
        /\ xpc # "returned" => "LOGGED" \in xflags
        /\ xhist.strategy \in {"none", "SWAPEXT"}
        /\ xhist.strategy = "SWAPEXT" =>
                /\ "LOGGED" \in xflags
                /\ "LOGGED" \in xreq.req_flags
        /\ ~SameMaps(xf, xf0) =>
                /\ xhist.strategy = "SWAPEXT"
                /\ "LOGGED" \in xreq.req_flags

\* the log feature could not be enabled for a request that requires it
C28_Witness ==
    /\ xpc = "returned"
    /\ "NONATOMIC" \notin xhist.fxr0.flags
    /\ ~xmp.logswapext
    /\ xmp.bigtime
    /\ xhist.pre = "EIO"
    /\ xerror = "EIO"

\* xfs_exch_range_checks ran and rejected the request
ChecksFailed == xhist.chk \notin {"none", "OK"}

\* C33 as stated: the argument preconditions of an exchange are evaluated
\* before any lock on either file is taken, so a request that fails one
\* of them returns without having acquired a lock.
C33_ChecksBeforeAnyLock ==
    /\ xpc = "prep" => (~xiolock /\ ~xilock)
    /\ ChecksFailed => xhist.niolock = 0

\* C33 as amended: the argument preconditions are evaluated with the
\* IOLOCK and MMAPLOCK of both files held and before an ILOCK is taken or
\* a transaction allocated; a request that fails one of them has taken
\* the IOLOCKs once, returns with every lock released, and has changed
\* nothing on either file.
C33_ChecksUnderIolockBeforeIlock ==
    /\ xpc = "prep" =>
            /\ xiolock
            /\ ~xilock
            /\ xtp = "none"
            /\ xhist.chk = "none"
    /\ xhist.chk # "none" => xhist.niolock = 1
    /\ ChecksFailed =>
            /\ xpc \in {"returned", "idle"}
            /\ xerror = xhist.chk
            /\ ~xiolock
            /\ ~xilock
            /\ xhist.nalloc = 0
            /\ xf = xf0
    /\ xilock => xiolock
    /\ xpc \in {"returned", "idle"} => (~xiolock /\ ~xilock)

\* a request with an unaligned offset was rejected by the checks, after
\* the IOLOCKs had been taken
C33_Witness ==
    /\ xpc = "returned"
    /\ Unaligned1
    /\ xhist.chk = "EINVAL"
    /\ xerror = "EINVAL"
    /\ xhist.niolock = 1
    /\ ~xiolock

\* C40: a DRY_RUN request that passes every check returns success and
\* changes nothing on either file: no mapping, size, timestamp or
\* privilege attribute is modified and no transaction is committed.
C40_DryRunChangesNothing ==
    (xpc = "returned" /\ "DRY_RUN" \in fxr.flags /\ xerror = "OK") =>
        /\ xf = xf0
        /\ xhist.ncommit = 0

\* the part of C40 that holds: a DRY_RUN request never commits a
\* transaction and never changes a mapping, a size or a timestamp
DryRunKeepsContent ==
    (xpc # "idle" /\ "DRY_RUN" \in fxr.flags) =>
        /\ xhist.ncommit = 0
        /\ \A i \in {1, 2} :
              [xf[i] EXCEPT !.privs = FALSE] = [xf0[i] EXCEPT !.privs = FALSE]

(***************************************************************************)
(* Part V: operators and actions (xfile_pwrite, xfile_pread).              *)
(***************************************************************************)
offset_in_page(pos) == pos % PAGE_SIZE

round_down(pos) == (pos \div PAGE_SIZE) * PAGE_SIZE

Min(a, b) == IF a <= b THEN a ELSE b

\* the length of a chunk that takes no account of where in the page pos is
chunk_len_ignores_offset(count, pos) == Min(count, PAGE_SIZE)

\* len = min_t(ssize_t, count, PAGE_SIZE - offset_in_page(pos))
xfile_chunk_len(count, pos) == Min(count, PAGE_SIZE - offset_in_page(pos))

\* a page that is handed out with what it held before
StalePage == [i \in 1..PAGE_SIZE |-> 99]

\* the page at key is handed out as it is, without the memset
get_page_without_zeroing(x, key) ==
    LET p == key \div PAGE_SIZE
    IN  [x EXCEPT
            !.pages[p] = IF @ = NoPage THEN StalePage ELSE @,
            !.isize = IF @ < key + PAGE_SIZE THEN key + PAGE_SIZE ELSE @]

\* xfile_get_page: the page at key is in the mapping, zeroed if it was not
\* up to date, and EOF is pushed out behind it
xfile_get_page(x, key) ==
    LET p == key \div PAGE_SIZE
    IN  [x EXCEPT
            !.pages[p] = IF @ = NoPage THEN ZeroPage ELSE @,
            !.isize = IF @ < key + PAGE_SIZE THEN key + PAGE_SIZE ELSE @]

\* the slot xfile_cache_lookup takes for a page that is not cached: the
\* first empty one, or the last
CacheSlot(x) ==
    IF \E i \in 1..XFILE_CACHE_ENTRIES : x.cached[i] = NoKey
    THEN CHOOSE i \in 1..XFILE_CACHE_ENTRIES :
            /\ x.cached[i] = NoKey
            /\ \A j \in 1..(i - 1) : x.cached[j] # NoKey
    ELSE XFILE_CACHE_ENTRIES

\* swap(xf->cached[0], xf->cached[i])
CacheToFront(cached, i) ==
    [cached EXCEPT ![1] = cached[i], ![i] = cached[1]]

\* the result of xfile_cache_lookup: kaddr is the page that the address
\* returned lies in, xf->cached[0].kaddr
Looked(x, err) ==
    [x |-> x, error |-> err,
     kaddr |-> IF err = "OK" THEN x.cached[1] ELSE NoKey]

\* a lookup that finds the page in the cache and leaves it where it is
lookup_without_swap(x, pos, fault) ==
    LET key == round_down(pos)
        hit == {i \in 1..XFILE_CACHE_ENTRIES : x.cached[i] = key}
        slot == CacheSlot(x)
        evicted == [x EXCEPT !.cached[slot] = NoKey]
        filled == [xfile_get_page(evicted, key) EXCEPT !.cached[slot] = key]
    IN  IF ~x.cache_on THEN Looked(x, "none")
        ELSE IF hit # {} THEN Looked(x, "OK")
        ELSE IF x.cached[slot] # NoKey /\ fault = "put"
        THEN Looked(evicted, "EIO")
        ELSE IF fault = "get"
        THEN Looked(evicted, "ENOMEM")
        ELSE Looked([filled EXCEPT !.cached = CacheToFront(@, slot)], "OK")

\* xfile_cache_lookup: the xfile afterwards, the error and the page of
\* the address returned; "none" stands for the NULL of a disabled cache.
\* fault is the step that fails: "put" (xfile_cache_evict) or "get"
\* (xfile_cache_fill)
xfile_cache_lookup(x, pos, fault) ==
    LET key == round_down(pos)
        hit == {i \in 1..XFILE_CACHE_ENTRIES : x.cached[i] = key}
        slot == CacheSlot(x)
        evicted == [x EXCEPT !.cached[slot] = NoKey]
        filled == [xfile_get_page(evicted, key) EXCEPT !.cached[slot] = key]
    IN  IF ~x.cache_on THEN Looked(x, "none")
        ELSE IF hit # {}
        THEN Looked([x EXCEPT !.cached =
                        CacheToFront(@, CHOOSE i \in hit : TRUE)], "OK")
        ELSE IF x.cached[slot] # NoKey /\ fault = "put"
        THEN Looked(evicted, "EIO")
        ELSE IF fault = "get"
        THEN Looked(evicted, "ENOMEM")
        ELSE Looked([filled EXCEPT !.cached = CacheToFront(@, slot)], "OK")

\* memcpy(p, buf, len) with p = kaddr + offset_in_page(pos)
CopyIn(x, pos, buf, len) ==
    LET p == pos \div PAGE_SIZE
        o == offset_in_page(pos)
    IN  [x EXCEPT !.pages[p] =
            [i \in 1..PAGE_SIZE |->
                IF i - 1 >= o /\ i - 1 < o + len THEN buf[i - o] ELSE @[i]]]

\* memcpy(buf, p, len)
CopyOut(x, pos, len) ==
    LET p == pos \div PAGE_SIZE
        o == offset_in_page(pos)
    IN  [i \in 1..len |->
            IF o + i <= PAGE_SIZE THEN x.pages[p][o + i] ELSE 0]

\* the value xfile_pwrite and xfile_pread return
RwResult(done, err) ==
    IF done > 0 THEN [n |-> done, err |-> "OK"] ELSE [n |-> 0, err |-> err]

\* the loop of xfile_pwrite from its k-th turn on; fail names the turn and
\* the step ("get" or "put" of a page) that fails
RECURSIVE pwrite_loop(_, _, _, _, _, _, _)
pwrite_loop(x, buf, count, pos, written, k, fail) ==
    LET len == xfile_chunk_len(count, pos)
        fault == IF fail.turn = k THEN fail.step ELSE "none"
        lk == xfile_cache_lookup(x, pos, fault)
        got == xfile_get_page(x, round_down(pos))
        rest == SubSeq(buf, len + 1, Len(buf))
    IN  IF count = 0 THEN [x |-> x, ret |-> RwResult(written, "OK")]
        ELSE IF lk.error = "none"
        THEN IF fault = "get"
             THEN [x |-> x, ret |-> RwResult(written, "ENOMEM")]
             ELSE IF fault = "put"
             THEN [x |-> CopyIn(got, pos, buf, len),
                   ret |-> RwResult(written, "EIO")]
             ELSE pwrite_loop(CopyIn(got, pos, buf, len), rest, count - len,
                              pos + len, written + len, k + 1, fail)
        ELSE IF lk.error # "OK"
        THEN [x |-> lk.x, ret |-> RwResult(written, lk.error)]
        ELSE pwrite_loop(CopyIn(lk.x, lk.kaddr + offset_in_page(pos), buf,
                                len),
                         rest, count - len, pos + len, written + len, k + 1,
                         fail)

\* xfile_pwrite: the xfile afterwards and the return value
xfile_pwrite(x, buf, count, pos, fail) ==
    IF count > MAX_RW_COUNT THEN [x |-> x, ret |-> RwResult(0, "E2BIG")]
    ELSE IF S_MAXBYTES - pos < count THEN [x |-> x, ret |-> RwResult(0, "EFBIG")]
    ELSE pwrite_loop(x, buf, count, pos, 0, 1, fail)

\* the loop of xfile_pread from its k-th turn on
RECURSIVE pread_loop(_, _, _, _, _, _, _)
pread_loop(x, buf, count, pos, read, k, fail) ==
    LET len == xfile_chunk_len(count, pos)
        fault == IF fail.turn = k THEN fail.step ELSE "none"
        lk == xfile_cache_lookup(x, pos, fault)
        got == xfile_get_page(x, round_down(pos))
    IN  IF count = 0 THEN [x |-> x, ret |-> RwResult(read, "OK"), buf |-> buf]
        ELSE IF lk.error = "none"
        THEN IF fault = "get"
             THEN [x |-> x, ret |-> RwResult(read, "ENOMEM"), buf |-> buf]
             ELSE IF fault = "put"
             THEN [x |-> got, ret |-> RwResult(read, "EIO"),
                   buf |-> buf \o CopyOut(got, pos, len)]
             ELSE pread_loop(got, buf \o CopyOut(got, pos, len), count - len,
                             pos + len, read + len, k + 1, fail)
        ELSE IF lk.error # "OK"
        THEN [x |-> lk.x, ret |-> RwResult(read, lk.error), buf |-> buf]
        ELSE pread_loop(lk.x,
                        buf \o CopyOut(lk.x, lk.kaddr + offset_in_page(pos),
                                       len),
                        count - len, pos + len, read + len, k + 1, fail)

\* xfile_pread: the xfile afterwards, the return value and the bytes put
\* into the caller's buffer
xfile_pread(x, count, pos, fail) ==
    IF count > MAX_RW_COUNT THEN [x |-> x, ret |-> RwResult(0, "E2BIG"), buf |-> <<>>]
    ELSE IF S_MAXBYTES - pos < count
    THEN [x |-> x, ret |-> RwResult(0, "EFBIG"), buf |-> <<>>]
    ELSE pread_loop(x, <<>>, count, pos, 0, 1, fail)

\* a wrapper that takes a short transfer for a whole one
obj_load_accepts_short(ret, count) ==
    IF ret.err # "OK" THEN "ENOMEM" ELSE "OK"

\* xfile_obj_load: ret < 0 || ret != count is -ENOMEM
xfile_obj_load(ret, count) ==
    IF ret.err # "OK" \/ ret.n # count THEN "ENOMEM" ELSE "OK"

\* xfile_obj_store: ret < 0 || ret != count is -ENOMEM
xfile_obj_store(ret, count) ==
    IF ret.err # "OK" \/ ret.n # count THEN "ENOMEM" ELSE "OK"

\* the loop of xfile_prealloc from its k-th turn on: every page of the
\* range is got and put, uncached
RECURSIVE prealloc_loop(_, _, _, _, _)
prealloc_loop(x, count, pos, k, fail) ==
    LET len == xfile_chunk_len(count, pos)
        fault == IF fail.turn = k THEN fail.step ELSE "none"
        got == xfile_get_page(x, round_down(pos))
    IN  IF count = 0 THEN [x |-> x, error |-> "OK"]
        ELSE IF fault = "get" THEN [x |-> x, error |-> "ENOMEM"]
        ELSE IF fault = "put" THEN [x |-> got, error |-> "EIO"]
        ELSE prealloc_loop(got, count - len, pos + len, k + 1, fail)

\* xfile_prealloc: the xfile afterwards and the error
xfile_prealloc(x, count, pos, fail) ==
    IF count > MAX_RW_COUNT THEN [x |-> x, error |-> "E2BIG"]
    ELSE IF S_MAXBYTES - pos < count THEN [x |-> x, error |-> "EFBIG"]
    ELSE prealloc_loop(x, count, pos, 1, fail)

\* xfile_discard: the cache is dropped and the pages that lie wholly in the
\* range leave the mapping, the bytes of the range in the other pages are
\* zeroed (shmem_truncate_range)
xfile_discard(x, pos, count) ==
    [x EXCEPT
        !.cached = [i \in 1..XFILE_CACHE_ENTRIES |-> NoKey],
        !.pages = [p \in PageIdx |->
            IF x.pages[p] = NoPage THEN NoPage
            ELSE IF p * PAGE_SIZE >= pos
                    /\ (p + 1) * PAGE_SIZE <= pos + count
            THEN NoPage
            ELSE [i \in 1..PAGE_SIZE |->
                    IF p * PAGE_SIZE + i - 1 >= pos
                       /\ p * PAGE_SIZE + i - 1 < pos + count
                    THEN 0 ELSE x.pages[p][i]]]]

\* the buffer a caller writes: count bytes, none zero, all different and
\* different from the bytes of the calls before
XfileBuf(count) == [i \in 1..count |-> 10 * (xfile_nops + 1) + i]

\* the turns the loop takes over [pos, pos + count)
Turns(count, pos) ==
    IF count = 0 \/ count > MAX_RW_COUNT \/ S_MAXBYTES - pos < count THEN 0
    ELSE (pos + count - 1) \div PAGE_SIZE - pos \div PAGE_SIZE + 1

NoFail == [turn |-> 0, step |-> "none"]

\* the failures of one call: none, or one step of one of its turns
XfileFails(count, pos) ==
    {NoFail}
    \cup {[turn |-> t, step |-> s] :
            t \in IF xfile_nfault < MaxFaults THEN 1..Turns(count, pos)
                  ELSE {},
            s \in {"get", "put"}}

Faulted(fail) == xfile_nfault + (IF fail = NoFail THEN 0 ELSE 1)

Overlaps(pos1, count1, pos2, count2) ==
    pos1 < pos2 + count2 /\ pos2 < pos1 + count1

\* the write remembered after a call on [pos, pos + count) that may have
\* changed bytes
Remembered(pos, count) ==
    IF Overlaps(xfile_written.pos, Len(xfile_written.buf), pos, count)
    THEN NoWrite ELSE xfile_written

\* the xfile without cache after a call with the result res; it is
\* followed as long as no page failed to be got or put
RefAfter(fail, res, buf) ==
    IF xfile_ref.valid /\ fail = NoFail
    THEN [valid |-> TRUE, x |-> res.x, ret |-> res.ret, buf |-> buf]
    ELSE NoRef

XfileInit ==
    /\ xfile \in {NewXfile(c) : c \in BOOLEAN}
    /\ xfile_last = NoXfileOp
    /\ xfile_written = NoWrite
    /\ xfile_nops = 0
    /\ xfile_nfault = 0
    /\ xfile_touched = {}
    /\ xfile_ref = NewRef
    /\ SxiQuiet
    /\ ScrubQuiet
    /\ ScrubvQuiet
    /\ XchgQuiet
    /\ XfbQuiet
    /\ XbmQuiet
    /\ SxiRefQuiet
    /\ CancelQuiet

XfilePwrite(buf, pos, fail) ==
    LET count == Len(buf)
        res == xfile_pwrite(xfile, buf, count, pos, fail)
    IN  /\ xfile_nops < MaxXfileOps
        /\ xfile' = res.x
        /\ xfile_last' = [op |-> "pwrite", pos |-> pos, count |-> count,
                          ret |-> res.ret, buf |-> buf, fail |-> fail,
                          obj |-> xfile_obj_store(res.ret, count),
                          size |-> xfile.isize, prev |-> xfile_last.op]
        /\ xfile_written' = IF res.ret.n = count /\ count > 0
                            THEN [pos |-> pos, buf |-> buf]
                            ELSE Remembered(pos, count)
        /\ xfile_touched' = IF res.ret.err \in {"E2BIG", "EFBIG"}
                            THEN xfile_touched
                            ELSE xfile_touched \cup (pos..(pos + count - 1))
        /\ xfile_nops' = xfile_nops + 1
        /\ xfile_nfault' = Faulted(fail)
        /\ xfile_ref' = RefAfter(fail,
                xfile_pwrite(xfile_ref.x, buf, count, pos, NoFail), buf)
        /\ UNCHANGED xfileOther

XfilePread(count, pos, fail) ==
    LET res == xfile_pread(xfile, count, pos, fail)
    IN  /\ xfile_nops < MaxXfileOps
        /\ xfile' = res.x
        /\ xfile_last' = [op |-> "pread", pos |-> pos, count |-> count,
                          ret |-> res.ret, buf |-> res.buf, fail |-> fail,
                          obj |-> xfile_obj_load(res.ret, count),
                          size |-> xfile.isize, prev |-> xfile_last.op]
        /\ xfile_nops' = xfile_nops + 1
        /\ xfile_nfault' = Faulted(fail)
        /\ xfile_ref' =
                LET ref == xfile_pread(xfile_ref.x, count, pos, NoFail)
                IN  RefAfter(fail, ref, ref.buf)
        /\ UNCHANGED <<xfile_written, xfile_touched>>
        /\ UNCHANGED xfileOther

XfileDiscard(pos, count) ==
    /\ xfile_nops < MaxXfileOps
    /\ xfile' = xfile_discard(xfile, pos, count)
    /\ xfile_last' = [op |-> "discard", pos |-> pos, count |-> count,
                      ret |-> RwResult(0, "OK"), buf |-> <<>>,
                      fail |-> NoFail, obj |-> "OK",
                      size |-> xfile.isize, prev |-> xfile_last.op]
    /\ xfile_written' = Remembered(pos, count)
    /\ xfile_nops' = xfile_nops + 1
    /\ xfile_ref' = RefAfter(NoFail,
            [x |-> xfile_discard(xfile_ref.x, pos, count),
             ret |-> RwResult(0, "OK")], <<>>)
    /\ UNCHANGED <<xfile_nfault, xfile_touched>>
    /\ UNCHANGED xfileOther

XfilePrealloc(count, pos, fail) ==
    LET res == xfile_prealloc(xfile, count, pos, fail)
    IN  /\ xfile_nops < MaxXfileOps
        /\ xfile' = res.x
        /\ xfile_last' = [op |-> "prealloc", pos |-> pos, count |-> count,
                          ret |-> RwResult(0, res.error), buf |-> <<>>,
                          fail |-> fail, obj |-> res.error,
                          size |-> xfile.isize, prev |-> xfile_last.op]
        /\ xfile_nops' = xfile_nops + 1
        /\ xfile_nfault' = Faulted(fail)
        /\ xfile_ref' =
                LET ref == xfile_prealloc(xfile_ref.x, count, pos, NoFail)
                IN  RefAfter(fail, [x |-> ref.x,
                                    ret |-> RwResult(0, ref.error)], <<>>)
        /\ UNCHANGED <<xfile_written, xfile_touched>>
        /\ UNCHANGED xfileOther

XfileNext ==
    \/ \E count \in 0..MaxXfileCount, pos \in 0..MaxXfilePos :
            \E fail \in XfileFails(count, pos) :
                XfilePwrite(XfileBuf(count), pos, fail)
    \/ \E count \in 0..MaxXfileCount, pos \in 0..MaxXfilePos :
            \E fail \in XfileFails(count, pos) :
                XfilePread(count, pos, fail)
    \/ \E pos \in 0..MaxXfilePos, count \in 1..PAGE_SIZE :
            XfileDiscard(pos, count)
    \/ \E pos \in 0..MaxXfilePos, count \in 1..PAGE_SIZE :
            \E fail \in XfileFails(count, pos) :
                XfilePrealloc(count, pos, fail)

SpecXfile == XfileInit /\ [][XfileNext]_<<xfileVars, xfileOther>>

(***************************************************************************)
(* Part V properties.                                                      *)
(***************************************************************************)
\* the last call read the whole range of the remembered write
ReadBack ==
    /\ xfile_last.op = "pread"
    /\ xfile_written # NoWrite
    /\ xfile_last.pos = xfile_written.pos
    /\ xfile_last.count = Len(xfile_written.buf)
    /\ xfile_last.ret.n = xfile_last.count
    /\ xfile_last.count > 0

\* C20: when pwrite(buf, len, pos) has written all len bytes and, with no
\* write to the range since, pread(len, pos) reads all len bytes, the
\* bytes read are buf; the range may cross one or several page boundaries.
C20_ReadsBackWhatWasWritten ==
    ReadBack => xfile_last.buf = xfile_written.buf

\* a range over three pages, read back after another call in between
C20_Witness ==
    /\ ReadBack
    /\ xfile_nops = 3
    /\ xfile_written.pos = 1
    /\ Len(xfile_written.buf) = 2 * PAGE_SIZE
    /\ xfile_last.buf = xfile_written.buf

\* the last call copied between a buffer and the xfile
Transfer == xfile_last.op \in {"pread", "pwrite"}

\* the bytes of the turns before the one that failed
DoneBeforeFail ==
    (xfile_last.pos \div PAGE_SIZE + xfile_last.fail.turn - 1) * PAGE_SIZE
        - xfile_last.pos

\* C21 as stated: pread and pwrite return len or an error, never a count k
\* with 0 < k < len.
C21_NoShortTransfer ==
    Transfer =>
        \/ xfile_last.ret = [n |-> xfile_last.count, err |-> "OK"]
        \/ xfile_last.ret.err # "OK"

\* C21: pread and pwrite return len, or an error, or, when a page cannot be
\* got or put after the first turn of a transfer over several pages, the
\* count of the bytes of the turns before; xfile_obj_load and
\* xfile_obj_store turn every return other than len into ENOMEM.
C21_ShortOnlyAfterFailure ==
    Transfer =>
        /\ \/ xfile_last.ret = [n |-> xfile_last.count, err |-> "OK"]
           \/ xfile_last.ret.err # "OK" /\ xfile_last.ret.n = 0
           \/ /\ xfile_last.ret.err = "OK"
              /\ xfile_last.fail.turn > 1
              /\ xfile_last.ret.n = DoneBeforeFail
              /\ 0 < xfile_last.ret.n /\ xfile_last.ret.n < xfile_last.count
        /\ (xfile_last.obj = "OK") <=>
                xfile_last.ret = [n |-> xfile_last.count, err |-> "OK"]
        /\ xfile_last.obj \in {"OK", "ENOMEM"}

\* a read of three pages whose third page cannot be got
C21_Witness ==
    /\ xfile_last.op = "pread"
    /\ xfile_last.count = 2 * PAGE_SIZE
    /\ xfile_last.pos = 1
    /\ xfile_last.fail = [turn |-> 3, step |-> "get"]
    /\ xfile_last.ret = [n |-> PAGE_SIZE + 1, err |-> "OK"]
    /\ xfile_last.obj = "ENOMEM"

\* C22: a byte that no pwrite has covered reads as zero: beyond the size
\* of the xfile, in a page that prealloc put into the mapping, and in the
\* rest of a page of which a part was written.
C22_NeverWrittenReadsZero ==
    xfile_last.op = "pread" =>
        \A i \in 1..Len(xfile_last.buf) :
            (xfile_last.pos + i - 1) \notin xfile_touched =>
                xfile_last.buf[i] = 0

\* byte 0 was written, the second page preallocated; the read covers the
\* rest of the first page, the second page and a byte beyond the size
C22_Witness ==
    /\ xfile_last.op = "pread"
    /\ xfile_last.prev = "prealloc"
    /\ xfile_touched = {0}
    /\ xfile_last.pos = 1
    /\ xfile_last.ret = [n |-> 2 * PAGE_SIZE, err |-> "OK"]
    /\ xfile_last.size = 2 * PAGE_SIZE
    /\ \A i \in 1..(2 * PAGE_SIZE) : xfile_last.buf[i] = 0

\* C38: a sequence of calls of xfile_pread, xfile_pwrite and xfile_discard
\* in which no page fails to be got or put returns the same values and the
\* same bytes with the cache enabled as without it; the cache holds at
\* most XFILE_CACHE_ENTRIES pages, each at a page-aligned offset, and no
\* offset twice.
C38_CacheIsTransparent ==
    /\ xfile_ref.valid =>
            /\ xfile_last.ret = xfile_ref.ret
            /\ xfile_last.op = "pread" => xfile_last.buf = xfile_ref.buf
    /\ Cardinality({i \in DOMAIN xfile.cached : xfile.cached[i] # NoKey})
            <= XFILE_CACHE_ENTRIES
    /\ \A i \in DOMAIN xfile.cached :
            xfile.cached[i] # NoKey =>
                /\ xfile.cached[i] % PAGE_SIZE = 0
                /\ xfile.cached[i] \div PAGE_SIZE \in PageIdx
                /\ \A j \in DOMAIN xfile.cached :
                        j # i => xfile.cached[j] # xfile.cached[i]
    /\ ~xfile.cache_on => \A i \in DOMAIN xfile.cached : xfile.cached[i] = NoKey

\* with the cache enabled: a write over three pages, which evicts a page
\* from the cache of two, a discard, and a read of the three pages that
\* returns bytes of the write and zeroes
C38_Witness ==
    /\ xfile.cache_on
    /\ xfile_ref.valid
    /\ xfile_nops = 3
    /\ xfile_last.op = "pread"
    /\ xfile_last.prev = "discard"
    /\ xfile_last.pos = 1
    /\ xfile_last.ret = [n |-> 2 * PAGE_SIZE, err |-> "OK"]
    /\ xfile_last.buf = xfile_ref.buf
    /\ \E i \in 1..Len(xfile_last.buf) : xfile_last.buf[i] # 0
    /\ \E i \in 1..Len(xfile_last.buf) : xfile_last.buf[i] = 0
    /\ \A i \in DOMAIN xfile.cached : xfile.cached[i] # NoKey

(***************************************************************************)
(* Part VI: operators and actions (xfbtree).  The btree algorithm itself   *)
(* (libxfs/xfs_btree.c) is modelled as a conventional B+tree that calls    *)
(* the xfbtree operations for its blocks and its root.                     *)
(***************************************************************************)
\* the keys of seq and k, in ascending order
RECURSIVE SortedInsert(_, _)
SortedInsert(seq, k) ==
    IF seq = <<>> THEN <<k>>
    ELSE IF k < Head(seq) THEN <<k>> \o seq
    ELSE <<Head(seq)>> \o SortedInsert(Tail(seq), k)

\* seq without its i-th element
RemoveAt(seq, i) == SubSeq(seq, 1, i - 1) \o SubSeq(seq, i + 1, Len(seq))

\* seq with e put in as its i-th element
InsertAt(seq, i, e) == SubSeq(seq, 1, i - 1) \o <<e>> \o SubSeq(seq, i, Len(seq))

\* seq without the key k
WithoutKey(seq, k) == SelectSeq(seq, LAMBDA e : e # k)

SetMin(S) == CHOOSE m \in S : \A o \in S : m <= o

\* xfoff_bitmap_take_first_set, or the end of the xfile (-ENODATA)
FirstFree(t) ==
    IF t.freespace # {} THEN SetMin(t.freespace) ELSE t.highest_offset

\* an allocation that hands out the first free block and leaves it in the
\* free space
alloc_keeps_bit(t, nomem) ==
    LET bt_xfoff == FirstFree(t)
        taken == IF t.freespace # {} THEN t
                 ELSE [t EXCEPT !.highest_offset = @ + 1]
    IN  IF nomem THEN [t |-> taken, blk |-> NULLFSBLOCK, error |-> "ENOMEM"]
        ELSE [t |-> [taken EXCEPT !.size = IF bt_xfoff + 1 > @
                                           THEN bt_xfoff + 1 ELSE @],
              blk |-> bt_xfoff, error |-> "OK"]

\* xfbtree_alloc_block: struct xfbtree afterwards, the block and the error;
\* nomem is the failure of xfile_prealloc
xfbtree_alloc_block(t, nomem) ==
    LET bt_xfoff == FirstFree(t)
        taken == IF t.freespace # {}
                 THEN [t EXCEPT !.freespace = @ \ {bt_xfoff}]
                 ELSE [t EXCEPT !.highest_offset = @ + 1]
    IN  IF nomem THEN [t |-> taken, blk |-> NULLFSBLOCK, error |-> "ENOMEM"]
        ELSE [t |-> [taken EXCEPT !.size = IF bt_xfoff + 1 > @
                                           THEN bt_xfoff + 1 ELSE @],
              blk |-> bt_xfoff, error |-> "OK"]

\* a block that is freed and not put into the free space
free_block_forgets(t, blk) == t

\* xfbtree_free_block: xfoff_bitmap_set(&xfbt->freespace, bt_xfoff, 1)
xfbtree_free_block(t, blk) == [t EXCEPT !.freespace = @ \cup {blk}]

\* xfbtree_set_root: mh_root = ptr, mh_nlevels += inc
xfbtree_set_root(head, ptr, inc) ==
    [head EXCEPT !.root = ptr, !.nlevels = @ + inc]

\* a btree block with these records (and pointers)
WithRecs(blk, recs, ptrs) ==
    [blk EXCEPT !.recs = recs, !.ptrs = ptrs, !.numrecs = Len(recs)]

\* the index in node blk of the child that covers key k
ChildFor(blk, k) ==
    LET le == {j \in 1..Len(blk.recs) : blk.recs[j] <= k}
    IN  IF le = {} THEN 1 ELSE CHOOSE j \in le : \A o \in le : o <= j

\* the result of a btree operation
TreeResult(t, blocks, touched, handed, err) ==
    [t |-> t, blocks |-> blocks, touched |-> touched, handed |-> handed,
     error |-> err]

\* a leaf that is full is split: the upper half of its records goes to a
\* new right sibling, the key to the half it belongs to
SplitLeaf(lblk, k) ==
    LET old == lblk.recs
        lrecs == (Len(old) + 1) \div 2
        low == SubSeq(old, 1, lrecs)
        high == SubSeq(old, lrecs + 1, Len(old))
    IN  IF k > high[1]
        THEN [left |-> low, right |-> SortedInsert(high, k)]
        ELSE [left |-> SortedInsert(low, k), right |-> high]

\* insert key k; nomem names the block allocation (1 or 2) that fails
btree_insert(t, blocks, k, nomem) ==
    LET head == blocks[XFBTREE_HEAD_BLOCK]
        onelevel == head.nlevels = 1
        node == IF onelevel THEN NoBlk ELSE blocks[head.root]
        i == IF onelevel THEN 1 ELSE ChildFor(node, k)
        leaf == IF onelevel THEN head.root ELSE node.ptrs[i]
        lblk == blocks[leaf]
        a1 == xfbtree_alloc_block(t, nomem = 1)
        a2 == xfbtree_alloc_block(a1.t, nomem = 2)
        sp == SplitLeaf(lblk, k)
        rsib == lblk.rightsib
        newleft == [WithRecs(lblk, sp.left, <<>>) EXCEPT !.rightsib = a1.blk]
        newright == [WithRecs(InitBlk(0), sp.right, <<>>) EXCEPT
                        !.leftsib = leaf, !.rightsib = rsib]
        split == [b \in XfbBlocks |->
                    IF b = leaf THEN newleft
                    ELSE IF b = a1.blk THEN newright
                    ELSE IF b = rsib THEN [blocks[b] EXCEPT !.leftsib = a1.blk]
                    ELSE blocks[b]]
        sibs == IF rsib = NULLFSBLOCK THEN <<>> ELSE <<rsib>>
    IN  IF lblk.numrecs < XfbMaxrecs(0)
        THEN LET recs == SortedInsert(lblk.recs, k)
             IN  IF onelevel
                 THEN TreeResult(t,
                        [blocks EXCEPT ![leaf] = WithRecs(@, recs, <<>>)],
                        <<leaf>>, {}, "OK")
                 ELSE TreeResult(t,
                        [blocks EXCEPT
                            ![leaf] = WithRecs(@, recs, <<>>),
                            ![head.root] = WithRecs(@,
                                [node.recs EXCEPT ![i] = recs[1]], @.ptrs)],
                        <<leaf, head.root>>, {}, "OK")
        ELSE IF a1.error # "OK"
        THEN TreeResult(a1.t, blocks, <<>>, {}, a1.error)
        ELSE IF onelevel
        THEN IF a2.error # "OK"
             THEN TreeResult(a2.t, split, <<leaf, a1.blk>>, {a1.blk},
                             a2.error)
             ELSE TreeResult(a2.t,
                    [split EXCEPT
                        ![a2.blk] = WithRecs(InitBlk(1),
                            <<sp.left[1], sp.right[1]>>, <<leaf, a1.blk>>),
                        ![XFBTREE_HEAD_BLOCK] =
                            xfbtree_set_root(@, a2.blk, 1)],
                    <<leaf, a1.blk, a2.blk, XFBTREE_HEAD_BLOCK>>,
                    {a1.blk, a2.blk}, "OK")
        ELSE TreeResult(a1.t,
                [split EXCEPT ![head.root] = WithRecs(@,
                    InsertAt([node.recs EXCEPT ![i] = sp.left[1]], i + 1,
                             sp.right[1]),
                    InsertAt(node.ptrs, i + 1, a1.blk))],
                <<leaf, a1.blk>> \o sibs \o <<head.root>>, {a1.blk}, "OK")

\* after a record left the node: a root node with one pointer gives way
\* to its child (the root block is freed, the level count drops by one)
KillRoot(t, blocks, rootblk, touched) ==
    LET node == blocks[rootblk]
    IN  IF node.numrecs = 1
        THEN TreeResult(xfbtree_free_block(t, rootblk),
                [blocks EXCEPT ![XFBTREE_HEAD_BLOCK] =
                    xfbtree_set_root(@, node.ptrs[1], -1)],
                touched \o <<rootblk, XFBTREE_HEAD_BLOCK>>, {}, "OK")
        ELSE TreeResult(t, blocks, touched \o <<rootblk>>, {}, "OK")

\* delete key k: a leaf left with fewer than minrecs records takes a
\* record from a sibling that can spare one, or is joined with a sibling
\* and the right block of the two is freed
btree_delete(t, blocks, k) ==
    LET head == blocks[XFBTREE_HEAD_BLOCK]
        onelevel == head.nlevels = 1
        r == head.root
        node == IF onelevel THEN NoBlk ELSE blocks[r]
        i == IF onelevel THEN 1 ELSE ChildFor(node, k)
        leaf == IF onelevel THEN head.root ELSE node.ptrs[i]
        lblk == blocks[leaf]
        recs == WithoutKey(lblk.recs, k)
        left == lblk.leftsib
        right == lblk.rightsib
        rrecs == IF right = NULLFSBLOCK THEN <<>> ELSE blocks[right].recs
        lrecs == IF left = NULLFSBLOCK THEN <<>> ELSE blocks[left].recs
        far == IF right = NULLFSBLOCK THEN NULLFSBLOCK
               ELSE blocks[right].rightsib
        farseq == IF far = NULLFSBLOCK THEN <<>> ELSE <<far>>
        rightseq == IF right = NULLFSBLOCK THEN <<>> ELSE <<right>>
    IN  IF onelevel
        THEN TreeResult(t, [blocks EXCEPT ![leaf] = WithRecs(@, recs, <<>>)],
                        <<leaf>>, {}, "OK")
        ELSE IF Len(recs) >= XfbMinrecs(0)
        THEN TreeResult(t,
                [blocks EXCEPT
                    ![leaf] = WithRecs(@, recs, <<>>),
                    ![r] = WithRecs(@, [node.recs EXCEPT ![i] = recs[1]],
                                    @.ptrs)],
                <<leaf, r>>, {}, "OK")
        ELSE IF Len(rrecs) > XfbMinrecs(0)
        THEN TreeResult(t,
                [blocks EXCEPT
                    ![leaf] = WithRecs(@, Append(recs, rrecs[1]), <<>>),
                    ![right] = WithRecs(@, Tail(rrecs), <<>>),
                    ![r] = WithRecs(@,
                        [node.recs EXCEPT ![i] = Append(recs, rrecs[1])[1],
                                          ![i + 1] = rrecs[2]], @.ptrs)],
                <<leaf, right, r>>, {}, "OK")
        ELSE IF Len(lrecs) > XfbMinrecs(0)
        THEN TreeResult(t,
                [blocks EXCEPT
                    ![leaf] = WithRecs(@, <<lrecs[Len(lrecs)]>> \o recs,
                                       <<>>),
                    ![left] = WithRecs(@, SubSeq(lrecs, 1, Len(lrecs) - 1),
                                       <<>>),
                    ![r] = WithRecs(@,
                        [node.recs EXCEPT ![i] = lrecs[Len(lrecs)]], @.ptrs)],
                <<leaf, left, r>>, {}, "OK")
        ELSE IF left # NULLFSBLOCK
        THEN KillRoot(xfbtree_free_block(t, leaf),
                [b \in XfbBlocks |->
                    IF b = left
                    THEN [WithRecs(blocks[b], lrecs \o recs, <<>>) EXCEPT
                            !.rightsib = right]
                    ELSE IF b = right
                    THEN [blocks[b] EXCEPT !.leftsib = left]
                    ELSE IF b = r
                    THEN WithRecs(node, RemoveAt(node.recs, i),
                                  RemoveAt(node.ptrs, i))
                    ELSE blocks[b]],
                r, <<left, leaf>> \o rightseq)
        ELSE KillRoot(xfbtree_free_block(t, right),
                [b \in XfbBlocks |->
                    IF b = leaf
                    THEN [WithRecs(blocks[b], recs \o rrecs, <<>>) EXCEPT
                            !.rightsib = far]
                    ELSE IF b = far
                    THEN [blocks[b] EXCEPT !.leftsib = leaf]
                    ELSE IF b = r
                    THEN WithRecs(node,
                            RemoveAt([node.recs EXCEPT ![i] = rrecs[1]],
                                     i + 1),
                            RemoveAt(node.ptrs, i + 1))
                    ELSE blocks[b]],
                r, <<leaf, right>> \o farseq)

\* xfbtree_verify_buftarg_xfileoff: the offset lies within the xfile
xfbtree_verify_buftarg_xfileoff(t, xfoff) == xfoff >= 0 /\ xfoff < t.size

\* xfs_btree_mem_head_verify (magic and uuid are taken to be right)
xfs_btree_mem_head_verify(blk) == blk.nlevels # 0

\* xfbtree_lblock_verify: numrecs and the sibling pointers
xfbtree_lblock_verify(t, blk) ==
    /\ blk.numrecs <= XfbMaxrecs(blk.level)
    /\ \/ blk.leftsib = NULLFSBLOCK
       \/ xfbtree_verify_buftarg_xfileoff(t, blk.leftsib)
    /\ \/ blk.rightsib = NULLFSBLOCK
       \/ xfbtree_verify_buftarg_xfileoff(t, blk.rightsib)

\* bp->b_ops->verify_struct(bp)
verify_struct(t, blk) ==
    IF blk.kind = "head" THEN xfs_btree_mem_head_verify(blk)
    ELSE xfbtree_lblock_verify(t, blk)

\* xfs_trans_log_buf for each block of touched: the buffer joins the
\* transaction if it is not in it, and is dirty
RECURSIVE LogBufs(_, _)
LogBufs(items, touched) ==
    IF touched = <<>> THEN items
    ELSE LET b == Head(touched)
             at == {j \in 1..Len(items) : items[j].blk = b}
         IN  LogBufs(IF at = {}
                     THEN Append(items, [blk |-> b, dirty |-> TRUE])
                     ELSE [j \in 1..Len(items) |->
                            IF j \in at THEN [items[j] EXCEPT !.dirty = TRUE]
                            ELSE items[j]],
                     Tail(touched))

\* xfs_trans_read_buf for each block of blks: the buffer joins the
\* transaction if it is not in it
RECURSIVE ReadBufs(_, _)
ReadBufs(items, blks) ==
    IF blks = <<>> THEN items
    ELSE ReadBufs(IF \E j \in 1..Len(items) : items[j].blk = Head(blks)
                  THEN items
                  ELSE Append(items, [blk |-> Head(blks), dirty |-> FALSE]),
                  Tail(blks))

\* the blocks a cursor reads on its way down: the head and the root
CursorReads ==
    <<XFBTREE_HEAD_BLOCK, xfb_blocks[XFBTREE_HEAD_BLOCK].root>>

\* the loop of xfbtree_trans_commit over the items of the transaction from
\* the k-th on: whether a buffer failed its verifier, and the delwri list
RECURSIVE commit_walk(_, _, _, _, _, _)
commit_walk(t, items, blocks, k, corrupt, buffer_list) ==
    IF k > Len(items) THEN [corrupt |-> corrupt, buffer_list |-> buffer_list]
    ELSE IF items[k].dirty /\ ~corrupt
    THEN IF ~verify_struct(t, blocks[items[k].blk])
         THEN commit_walk(t, items, blocks, k + 1, TRUE, buffer_list)
         ELSE commit_walk(t, items, blocks, k + 1, corrupt,
                          Append(buffer_list, items[k].blk))
    ELSE commit_walk(t, items, blocks, k + 1, corrupt, buffer_list)

\* xfs_buf_delwri_submit: every buffer of the list but the one that fails
\* (iofail, 0 for none) is written to the xfile
delwri_submit(blocks, store, buffer_list, iofail) ==
    LET wrote == {buffer_list[j] : j \in (1..Len(buffer_list)) \ {iofail}}
    IN  [ret |-> IF iofail \in 1..Len(buffer_list) THEN "ENOMEM" ELSE "OK",
         store |-> [b \in XfbBlocks |->
                        IF b \in wrote THEN blocks[b] ELSE store[b]],
         wrote |-> wrote]

\* a commit that submits its delwri list although a buffer was corrupt
commit_submits_despite_corruption(t, items, blocks, store, iofail) ==
    LET w == commit_walk(t, items, blocks, 1, FALSE, <<>>)
        io == delwri_submit(blocks, store, w.buffer_list, iofail)
    IN  IF w.corrupt THEN [io EXCEPT !.ret = "EFSCORRUPTED"] ELSE io

\* xfbtree_trans_commit: the return value, the xfile afterwards and the
\* blocks written
xfbtree_trans_commit(t, items, blocks, store, iofail) ==
    LET w == commit_walk(t, items, blocks, 1, FALSE, <<>>)
    IN  IF w.corrupt
        THEN [ret |-> "EFSCORRUPTED", store |-> store, wrote |-> {}]
        ELSE IF w.buffer_list = <<>>
        THEN [ret |-> "OK", store |-> store, wrote |-> {}]
        ELSE delwri_submit(blocks, store, w.buffer_list, iofail)

\* a buffer of the xfbtree as a log item of the transaction
XfbLogItem(e) ==
    [li_type |-> "XFS_LI_BUF", b_target |-> "xfbt", blk |-> e.blk,
     dirty |-> e.dirty]

\* tp->t_items: the buffers of the xfbtree and the items of others
TransItems(items, trans) ==
    {XfbLogItem(items[j]) : j \in 1..Len(items)}
    \cup {[li_type |-> k, b_target |-> "ddev", blk |-> NULLFSBLOCK,
            dirty |-> trans.others[k] = "dirty"] :
                k \in {o \in XfbOtherItems : trans.others[o] # "none"}}

\* xfbtree_buf_match: the log item is a buffer item, and its buffer is of
\* the buffer target of the xfbtree
xfbtree_buf_match(lip) ==
    lip.li_type = "XFS_LI_BUF" /\ lip.b_target = "xfbt"

\* the transaction with the buffers of the xfbtree and XFS_TRANS_DIRTY as
\* xfs_trans_log_buf leaves them
TransOf(items, others) ==
    [others |-> others,
     dirty |-> \/ \E j \in 1..Len(items) : items[j].dirty
               \/ \E k \in XfbOtherItems : others[k] = "dirty"]

\* a walk that detaches the buffers and leaves t_flags as it was
detach_leaves_dirty_flag(items, trans) ==
    LET left == {lip \in TransItems(items, trans) : ~xfbtree_buf_match(lip)}
    IN  [items |-> SelectSeq(items, LAMBDA e : XfbLogItem(e) \in left),
         trans |-> [others |-> [k \in XfbOtherItems |->
                                    IF \E lip \in left : lip.li_type = k
                                    THEN trans.others[k] ELSE "none"],
                    dirty |-> trans.dirty]]

\* the walk of xfbtree_trans_commit and of xfbtree_trans_cancel over
\* t_items: xfbtree_trans_bdetach for every item that xfbtree_buf_match
\* finds, tp_dirty from the others, and XFS_TRANS_DIRTY set to tp_dirty
trans_detach_walk(items, trans) ==
    LET left == {lip \in TransItems(items, trans) : ~xfbtree_buf_match(lip)}
    IN  [items |-> SelectSeq(items, LAMBDA e : XfbLogItem(e) \in left),
         trans |-> [others |-> [k \in XfbOtherItems |->
                                    IF \E lip \in left : lip.li_type = k
                                    THEN trans.others[k] ELSE "none"],
                    dirty |-> \E lip \in left : lip.dirty]]

\* xfbtree_trans_cancel: the buffers of the xfbtree leave the transaction
xfbtree_trans_cancel(items, trans) == trans_detach_walk(items, trans)

\* the number of blocks that left the free space or the end of the xfile
\* between struct xfbtree t and t2
XfbTaken(t, t2) ==
    Cardinality(t.freespace \ t2.freespace)
        + (t2.highest_offset - t.highest_offset)

\* the allocation failures an insertion can meet; the faults of a run
\* (failed allocations and writes, damaged buffers) come before keys are
\* inserted again
XfbNomem ==
    IF xfb_hist.nfault < MaxFaults /\ xfb_hist.phase = "insert"
    THEN 0..2 ELSE {0}

XfbInit ==
    /\ xfbt = NewXfbtree
    /\ xfb_blocks = NewBlocks
    /\ xfb_store = NewBlocks
    /\ xfb_items = <<>>
    /\ xfb_tp = NoTrans
    /\ xfb_pc = "open"
    /\ xfb_hist = NoXfbHist
    /\ SxiQuiet
    /\ ScrubQuiet
    /\ ScrubvQuiet
    /\ XchgQuiet
    /\ XfileQuiet
    /\ XbmQuiet
    /\ SxiRefQuiet
    /\ CancelQuiet

\* xfs_btree_insert of a key that is not in the tree; a run inserts keys,
\* deletes keys, and inserts keys again
XfbInsert(k, nomem) ==
    LET res == btree_insert(xfbt, xfb_blocks, k, nomem)
    IN  /\ xfb_pc = "open"
        /\ k \notin xfb_hist.inserted
        /\ xfbt' = res.t
        /\ xfb_blocks' = res.blocks
        /\ xfb_items' = LogBufs(ReadBufs(xfb_items, CursorReads), res.touched)
        /\ xfb_tp' = TransOf(xfb_items', NoTrans.others)
        /\ xfb_pc' = IF res.error = "OK" THEN "open" ELSE "failed"
        /\ xfb_hist' = [xfb_hist EXCEPT
                !.handed = @ \cup res.handed,
                !.inserted = IF res.error = "OK" THEN @ \cup {k} ELSE @,
                !.phase = IF @ = "insert" THEN "insert" ELSE "again",
                !.nfault = IF res.error = "OK" THEN @ ELSE @ + 1,
                !.commit = NoCommit,
                !.inuse = @ \cup res.handed,
                !.detach = NoDetach,
                !.alloc =
                    IF res.handed = {} /\ res.error = "OK" THEN NoAlloc
                    ELSE [ran |-> TRUE, error |-> res.error,
                          handed |-> res.handed,
                          taken |-> XfbTaken(xfbt, res.t),
                          inuse |-> xfb_hist.inuse,
                          txfreed |-> xfb_hist.txfreed,
                          before |-> IF nomem = 2 /\ res.error # "OK"
                                     THEN xfbtree_alloc_block(xfbt, FALSE).t
                                     ELSE xfbt]]
        /\ UNCHANGED xfb_store
        /\ UNCHANGED xfbOther

\* xfs_btree_delete of a key that is in the tree
XfbDelete(k) ==
    LET res == btree_delete(xfbt, xfb_blocks, k)
    IN  /\ xfb_pc = "open"
        /\ xfb_hist.phase # "again"
        /\ k \in xfb_hist.inserted
        /\ xfbt' = res.t
        /\ xfb_blocks' = res.blocks
        /\ xfb_items' = LogBufs(ReadBufs(xfb_items, CursorReads), res.touched)
        /\ xfb_tp' = TransOf(xfb_items', NoTrans.others)
        /\ xfb_hist' = [xfb_hist EXCEPT
                !.detach = NoDetach,
                !.inserted = @ \ {k},
                !.phase = "delete",
                !.commit = NoCommit,
                !.freed = @ \cup (res.t.freespace \ xfbt.freespace),
                !.txfreed = @ \cup (res.t.freespace \ xfbt.freespace),
                !.inuse = @ \ (res.t.freespace \ xfbt.freespace),
                !.alloc = NoAlloc]
        /\ UNCHANGED <<xfb_store, xfb_pc>>
        /\ UNCHANGED xfbOther

\* a dirty buffer of the transaction is damaged before the commit: its
\* record count goes beyond maxrecs, or the level count of the head to 0
XfbScribble(j) ==
    LET b == xfb_items[j].blk
    IN  /\ xfb_pc = "open"
        /\ xfb_hist.nscribble < MaxFaults
        /\ xfb_hist.phase # "again"
        /\ xfb_items[j].dirty
        /\ xfb_blocks' = [xfb_blocks EXCEPT ![b] =
                IF @.kind = "head" THEN [@ EXCEPT !.nlevels = 0]
                ELSE [@ EXCEPT !.numrecs =
                        XfbMaxrecs(xfb_blocks[b].level) + 1]]
        /\ xfb_pc' = "damaged"
        /\ xfb_hist' = [xfb_hist EXCEPT !.nscribble = @ + 1,
                                        !.commit = NoCommit,
                                        !.alloc = NoAlloc]
        /\ UNCHANGED <<xfbt, xfb_store, xfb_items, xfb_tp>>
        /\ UNCHANGED xfbOther

\* xfbtree_trans_commit on a transaction that holds the items others
\* besides the buffers of the xfbtree
XfbCommit(iofail, others) ==
    LET res == xfbtree_trans_commit(xfbt, xfb_items, xfb_blocks, xfb_store,
                                    iofail)
        w == trans_detach_walk(xfb_items, TransOf(xfb_items, others))
    IN  /\ xfb_pc \in {"open", "damaged"}
        /\ xfb_items # <<>>
        /\ xfb_store' = res.store
        /\ xfb_items' = w.items
        /\ xfb_tp' = w.trans
        /\ xfb_pc' = IF res.ret = "OK" THEN "open" ELSE "failed"
        /\ xfb_hist' = [xfb_hist EXCEPT
                !.nfault = IF iofail = 0 THEN @ ELSE @ + 1,
                !.txfreed = {},
                !.alloc = NoAlloc,
                !.detach = [by |-> "commit", others |-> others,
                            before |-> xfb_store],
                !.commit = [ran |-> TRUE, ret |-> res.ret,
                            wrote |-> res.wrote,
                            dirty |-> {xfb_items[j].blk :
                                        j \in {n \in 1..Len(xfb_items) :
                                                xfb_items[n].dirty}},
                            items |-> [j \in 1..Len(xfb_items) |->
                                        xfb_items[j].blk],
                            before |-> xfb_store]]
        /\ UNCHANGED <<xfbt, xfb_blocks>>
        /\ UNCHANGED xfbOther

\* xfbtree_trans_cancel on a transaction that holds the items others
\* besides the buffers of the xfbtree: the buffers leave the transaction
\* unwritten
XfbCancel(others) ==
    /\ xfb_pc \in {"open", "damaged"}
    /\ xfb_items # <<>>
    /\ xfb_items' = xfbtree_trans_cancel(xfb_items,
                                          TransOf(xfb_items, others)).items
    /\ xfb_tp' = xfbtree_trans_cancel(xfb_items,
                                       TransOf(xfb_items, others)).trans
    /\ xfb_pc' = "failed"
    /\ xfb_hist' = [xfb_hist EXCEPT !.commit = NoCommit, !.txfreed = {},
                                    !.alloc = NoAlloc,
                                    !.detach = [by |-> "cancel",
                                                others |-> others,
                                                before |-> xfb_store]]
    /\ UNCHANGED <<xfbt, xfb_blocks, xfb_store>>
    /\ UNCHANGED xfbOther

XfbNext ==
    \/ \E k \in XfbKeys, nomem \in XfbNomem : XfbInsert(k, nomem)
    \/ \E k \in XfbKeys : XfbDelete(k)
    \/ \E j \in 1..Len(xfb_items) : XfbScribble(j)
    \/ \E iofail \in IF xfb_hist.nfault < MaxFaults
                        /\ xfb_hist.phase # "again"
                     THEN 0..Len(xfb_items) ELSE {0}, others \in XfbOthers :
            XfbCommit(iofail, others)
    \/ \E others \in XfbOthers : XfbCancel(others)

SpecXfbtree == XfbInit /\ [][XfbNext]_<<xfbVars, xfbOther>>

(***************************************************************************)
(* Part VI properties.                                                     *)
(***************************************************************************)
\* the structural verifier of a block, as the commit must apply it
PassesVerifier(blk) ==
    IF blk.kind = "head" THEN blk.nlevels # 0
    ELSE /\ blk.numrecs <= XfbMaxrecs(blk.level)
         /\ blk.leftsib = NULLFSBLOCK \/ blk.leftsib \in 0..(xfbt.size - 1)
         /\ blk.rightsib = NULLFSBLOCK \/ blk.rightsib \in 0..(xfbt.size - 1)

\* C23: a commit writes a dirty block to the xfile only if the block passed
\* its verifier, and when a dirty block fails the verifier the commit
\* returns EFSCORRUPTED and writes none of the dirty blocks.
C23_CommitVerifiesBeforeWriting ==
    xfb_hist.commit.ran =>
        /\ \A b \in xfb_hist.commit.wrote :
                /\ b \in xfb_hist.commit.dirty
                /\ PassesVerifier(xfb_blocks[b])
                /\ xfb_store[b] = xfb_blocks[b]
        /\ \A b \in XfbBlocks \ xfb_hist.commit.wrote :
                xfb_store[b] = xfb_hist.commit.before[b]
        /\ (\E b \in xfb_hist.commit.dirty : ~PassesVerifier(xfb_blocks[b]))
            => /\ xfb_hist.commit.ret = "EFSCORRUPTED"
               /\ xfb_hist.commit.wrote = {}

\* a commit of several dirty blocks of which one, not the first, is damaged
C23_Witness ==
    /\ xfb_hist.commit.ran
    /\ xfb_hist.commit.ret = "EFSCORRUPTED"
    /\ Cardinality(xfb_hist.commit.dirty) >= 3
    /\ xfb_store = xfb_hist.commit.before
    /\ \E b \in xfb_hist.commit.dirty :
            /\ ~PassesVerifier(xfb_blocks[b])
            /\ \E j \in 1..Len(xfb_hist.commit.items) :
                    j > 1 /\ xfb_hist.commit.items[j] = b
    /\ \E b \in xfb_hist.commit.dirty :
            PassesVerifier(xfb_blocks[b]) /\ xfb_store[b] # xfb_blocks[b]

\* every key that was inserted has been deleted again, and no buffer was
\* damaged
AllDeleted ==
    /\ xfb_hist.phase = "delete"
    /\ xfb_hist.inserted = {}
    /\ xfb_hist.nscribble = 0

\* C24: after N distinct keys were inserted and the same N keys deleted, in
\* any order, the tree is empty, the level count of the head block is what
\* it was at first, and the free set holds exactly the blocks that the
\* allocator handed out.
C24_InsertDeleteRestores ==
    AllDeleted =>
        /\ xfb_blocks[XFBTREE_HEAD_BLOCK].nlevels = 1
        /\ xfb_blocks[xfb_blocks[XFBTREE_HEAD_BLOCK].root].kind = "leaf"
        /\ xfb_blocks[xfb_blocks[XFBTREE_HEAD_BLOCK].root].numrecs = 0
        /\ xfb_blocks[xfb_blocks[XFBTREE_HEAD_BLOCK].root].recs = <<>>
        /\ xfbt.freespace = xfb_hist.handed

\* all keys were inserted and deleted; the tree had two levels and three
\* leaves on the way
C24_Witness ==
    /\ AllDeleted
    /\ xfb_pc = "open"
    /\ Cardinality(xfb_hist.handed) = 3
    /\ xfbt.freespace = xfb_hist.handed
    /\ xfb_blocks[XFBTREE_HEAD_BLOCK].nlevels = 1

\* C34: a block that the btree freed is in the free space, and no later
\* allocation hands it out before the buffers of the transaction that freed
\* it left that transaction (commit or cancel): the blocks an insertion was
\* given hold none of the blocks freed in the transaction it ran in.
C34_FreedBlockWaitsForFlush ==
    /\ xfb_pc = "open"
            => xfb_hist.txfreed \ xfb_hist.inuse \subseteq xfbt.freespace
    /\ xfb_hist.alloc.handed \cap xfb_hist.alloc.txfreed = {}

\* C35: the allocator never hands out the head block, hands out the first
\* leaf block only after it was freed, and never hands out a block that is
\* in use (given out or made by xfbtree_create, and not freed since) or the
\* same block twice in one insertion; every block of the free space is at
\* least XFBTREE_INIT_LEAF_BLOCK and below highest_offset.
C35_AllocatorHandsOutFreshBlocks ==
    /\ XFBTREE_HEAD_BLOCK \notin xfb_hist.handed
    /\ XFBTREE_INIT_LEAF_BLOCK \in xfb_hist.handed
            => XFBTREE_INIT_LEAF_BLOCK \in xfb_hist.freed
    /\ xfb_hist.alloc.handed \cap xfb_hist.alloc.inuse = {}
    /\ xfb_hist.alloc.error = "OK"
            => Cardinality(xfb_hist.alloc.handed) = xfb_hist.alloc.taken
    /\ \A b \in xfbt.freespace :
            b >= XFBTREE_INIT_LEAF_BLOCK /\ b < xfbt.highest_offset

\* an insertion was given two blocks that had been freed before, while a
\* third freed block stays in the free space
C35_Witness ==
    /\ xfb_hist.alloc.ran
    /\ xfb_hist.alloc.error = "OK"
    /\ Cardinality(xfb_hist.alloc.handed) = 2
    /\ xfb_hist.alloc.handed \subseteq xfb_hist.freed
    /\ xfbt.freespace # {}
    /\ xfb_pc = "open"

\* C36: an allocation that hands out no block leaves the free space and
\* highest_offset as they were before the call.
C36_FailedAllocKeepsFreeSpace ==
    (xfb_hist.alloc.ran /\ xfb_hist.alloc.error # "OK") =>
        /\ xfbt.freespace = xfb_hist.alloc.before.freespace
        /\ xfbt.highest_offset = xfb_hist.alloc.before.highest_offset

\* C37: after xfbtree_trans_commit (also one that found a corrupt buffer)
\* and after xfbtree_trans_cancel no buffer of the xfbtree is attached to
\* the transaction and the items of others are attached as before;
\* XFS_TRANS_DIRTY is set exactly if an item that is still attached is
\* dirty; a cancel leaves the xfile as it was.
C37_DetachAllAndResetDirty ==
    xfb_hist.detach.by # "none" =>
        /\ xfb_items = <<>>
        /\ xfb_tp.others = xfb_hist.detach.others
        /\ xfb_tp.dirty = (\E k \in XfbOtherItems : xfb_tp.others[k] = "dirty")
        /\ xfb_hist.detach.by = "cancel" => xfb_store = xfb_hist.detach.before
        /\ xfb_hist.detach.by = "commit" => xfb_hist.commit.ran

\* a commit that found a corrupt buffer among three dirty ones, in a
\* transaction that holds the clean buffer of another buffer target: that
\* one is still attached, and XFS_TRANS_DIRTY is clear
C37_Witness ==
    /\ xfb_hist.detach.by = "commit"
    /\ xfb_hist.commit.ret = "EFSCORRUPTED"
    /\ Cardinality(xfb_hist.commit.dirty) >= 3
    /\ xfb_items = <<>>
    /\ xfb_tp.others["XFS_LI_BUF"] = "clean"
    /\ xfb_tp.others["XFS_LI_INODE"] = "none"
    /\ ~xfb_tp.dirty

(***************************************************************************)
(* Part VII: operators and actions (xbitmap).  bitmap.h declares the       *)
(* operations; what they do is taken from the description of the interval  *)
(* set: set merges with every neighbour that touches or overlaps, clear    *)
(* may split an interval in two.                                           *)
(***************************************************************************)
\* the intervals of bm that hold a position of [start, last]
XbmOverlapping(bm, start, last) ==
    {n \in bm : n.start <= last /\ n.last >= start}

\* xbitmap_clear: the parts of the intervals outside [start, start + len)
xbitmap_clear(bm, start, len) ==
    LET last == start + len - 1
        hit == XbmOverlapping(bm, start, last)
    IN  (bm \ hit)
        \cup {[start |-> n.start, last |-> start - 1] :
                n \in {m \in hit : m.start < start}}
        \cup {[start |-> last + 1, last |-> n.last] :
                n \in {m \in hit : m.last > last}}

\* a set that merges with the neighbour on its left only
set_without_right_merge(bm, start, len) ==
    LET last == start + len - 1
        cleared == xbitmap_clear(bm, start, len)
        left == {n \in cleared : n.last = start - 1}
        nstart == IF left = {} THEN start
                  ELSE (CHOOSE n \in left : TRUE).start
    IN  (cleared \ left) \cup {[start |-> nstart, last |-> last]}

\* xbitmap_set: the range is cleared, then put in as one interval together
\* with the interval that ends right before it and the one that begins
\* right behind it
xbitmap_set(bm, start, len) ==
    LET last == start + len - 1
        cleared == xbitmap_clear(bm, start, len)
        left == {n \in cleared : n.last = start - 1}
        right == {n \in cleared : n.start = last + 1}
        nstart == IF left = {} THEN start
                  ELSE (CHOOSE n \in left : TRUE).start
        nlast == IF right = {} THEN last
                 ELSE (CHOOSE n \in right : TRUE).last
    IN  (cleared \ (left \cup right)) \cup {[start |-> nstart, last |-> nlast]}

\* xbitmap_hweight: the sum of the lengths of the intervals
RECURSIVE xbitmap_hweight(_)
xbitmap_hweight(bm) ==
    IF bm = {} THEN 0
    ELSE LET n == CHOOSE m \in bm : TRUE
         IN  (n.last - n.start + 1) + xbitmap_hweight(bm \ {n})

\* xbitmap_count_set_regions
xbitmap_count_set_regions(bm) == Cardinality(bm)

\* the ranges a caller passes: within the positions of the model
XbmRanges ==
    {<<start, len>> \in XbmBits \X (1..(MaxBit + 1)) :
        start + len - 1 <= MaxBit}

XbmInit ==
    /\ xbm = {}
    /\ xbm_ref = {}
    /\ xbm_last = NoXbmOp
    /\ SxiQuiet
    /\ ScrubQuiet
    /\ ScrubvQuiet
    /\ XchgQuiet
    /\ XfileQuiet
    /\ XfbQuiet
    /\ SxiRefQuiet
    /\ CancelQuiet

XbmSet(start, len) ==
    /\ xbm' = xbitmap_set(xbm, start, len)
    /\ xbm_ref' = xbm_ref \cup (start..(start + len - 1))
    /\ xbm_last' = [op |-> "set", start |-> start, len |-> len,
                    nregions |-> xbitmap_count_set_regions(xbm)]
    /\ UNCHANGED xbmOther

XbmClear(start, len) ==
    /\ xbm' = xbitmap_clear(xbm, start, len)
    /\ xbm_ref' = xbm_ref \ (start..(start + len - 1))
    /\ xbm_last' = [op |-> "clear", start |-> start, len |-> len,
                    nregions |-> xbitmap_count_set_regions(xbm)]
    /\ UNCHANGED xbmOther

XbmNext ==
    \/ \E r \in XbmRanges : XbmSet(r[1], r[2])
    \/ \E r \in XbmRanges : XbmClear(r[1], r[2])

SpecXbitmap == XbmInit /\ [][XbmNext]_<<xbmVars, xbmOther>>

(***************************************************************************)
(* Part VII properties.                                                    *)
(***************************************************************************)
\* C25: after any sequence of set and clear no two intervals of the bitmap
\* overlap or are adjacent, and hweight is the number of positions that a
\* reference model which applied the same operations covers.
C25_DisjointAndCounted ==
    /\ \A i \in xbm : i.start <= i.last
    /\ \A i, j \in xbm :
            i # j => (i.last + 1 < j.start \/ j.last + 1 < i.start)
    /\ xbitmap_hweight(xbm) = Cardinality(xbm_ref)
    /\ \A p \in XbmBits :
            (p \in xbm_ref) <=> (\E i \in xbm : i.start <= p /\ p <= i.last)

\* a set that filled the gap between two intervals and made one of them
C25_Witness ==
    /\ xbm_last.op = "set"
    /\ xbm_last.nregions = 3
    /\ xbitmap_count_set_regions(xbm) = 2
    /\ xbm_last.len = 1
    /\ xbitmap_hweight(xbm) = 5

(***************************************************************************)
(* Part VIII: operators and actions (the life of an intent log item).      *)
(* The handlers are those of xfs_swapext_item.c; when the transaction, the *)
(* deferred-work and the recovery code call them is taken from the         *)
(* comments of the handlers and the lifecycle of an intent.                *)
(***************************************************************************)
\* a release that frees the item whatever the count says
sxi_release_without_test(it) ==
    IF it.freed \/ it.refcount <= 0
    THEN [it EXCEPT !.misuse = TRUE]
    ELSE [it EXCEPT !.refcount = @ - 1, !.ail = FALSE, !.freed = TRUE,
                    !.nfree = @ + 1]

\* xfs_sxi_release: ASSERT(refcount > 0); the last reference takes the item
\* off the AIL and frees it.  A release of an item that is freed or has no
\* reference left is recorded as misuse
xfs_sxi_release(it) ==
    IF it.freed \/ it.refcount <= 0
    THEN [it EXCEPT !.misuse = TRUE]
    ELSE IF it.refcount - 1 = 0
    THEN [it EXCEPT !.refcount = 0, !.ail = FALSE, !.freed = TRUE,
                    !.nfree = @ + 1]
    ELSE [it EXCEPT !.refcount = @ - 1]

\* xfs_sxi_init: a zeroed item with two references
sxi_item_init(origin) ==
    [NoSxiItem EXCEPT !.alloc = TRUE, !.refcount = SXI_INIT_REFCOUNT,
                      !.loc = "tp", !.owner = "dfp", !.origin = origin]

\* the next item that kmem_cache_zalloc hands out
SxiFree == {i \in SxiItems : ~sxi_lip[i].alloc}

SxiNew == CHOOSE i \in SxiFree : \A j \in SxiFree : i <= j

\* the item is allocated and nothing has gone wrong with it
SxiLive(i) == sxi_lip[i].alloc /\ ~sxi_lip[i].misuse

SxiRefInit ==
    /\ sxi_lip = [i \in SxiItems |-> NoSxiItem]
    /\ SxiQuiet
    /\ ScrubQuiet
    /\ ScrubvQuiet
    /\ XchgQuiet
    /\ XfileQuiet
    /\ XfbQuiet
    /\ XbmQuiet
    /\ CancelQuiet

\* xfs_swapext_create_intent: a new item joins the transaction
SrCreateIntent ==
    /\ SxiFree # {}
    /\ sxi_lip' = [sxi_lip EXCEPT ![SxiNew] = sxi_item_init("create")]
    /\ UNCHANGED sxirefOther

\* the transaction that holds the item commits: the item is pinned
SrCommit(i) ==
    /\ SxiLive(i)
    /\ sxi_lip[i].loc = "tp"
    /\ sxi_lip' = [sxi_lip EXCEPT ![i].loc = "cil"]
    /\ UNCHANGED sxirefOther

\* the checkpoint is on disk: the item is inserted into the AIL
SrAilInsert(i) ==
    /\ SxiLive(i)
    /\ sxi_lip[i].loc = "cil"
    /\ sxi_lip' = [sxi_lip EXCEPT ![i].loc = "ail",
                                  ![i].ail = ~sxi_lip[i].freed]
    /\ UNCHANGED sxirefOther

\* xfs_sxi_item_unpin: the log is done with the item, after the insertion
\* into the AIL or (remove) after a log I/O error
SrUnpin(i, remove) ==
    /\ SxiLive(i)
    /\ sxi_lip[i].loc = IF remove THEN "cil" ELSE "ail"
    /\ sxi_lip' = [sxi_lip EXCEPT
            ![i] = [xfs_sxi_release(@) EXCEPT !.loc = "unpinned"]]
    /\ UNCHANGED sxirefOther

\* xfs_sxi_item_release: the transaction that holds the item is cancelled
SrCancel(i) ==
    /\ SxiLive(i)
    /\ sxi_lip[i].loc = "tp"
    /\ sxi_lip' = [sxi_lip EXCEPT
            ![i] = [xfs_sxi_release(@) EXCEPT !.loc = "cancelled"]]
    /\ UNCHANGED sxirefOther

\* xfs_swapext_abort_intent: the deferred work is aborted before a done
\* item was made
SrAbort(i) ==
    /\ SxiLive(i)
    /\ sxi_lip[i].owner = "dfp"
    /\ sxi_lip' = [sxi_lip EXCEPT
            ![i] = [xfs_sxi_release(@) EXCEPT !.owner = "none"]]
    /\ UNCHANGED sxirefOther

\* xfs_swapext_create_done / xfs_trans_get_sxd: a done item points at the
\* intent, in a transaction after the one that committed the intent
SrCreateDone(i) ==
    /\ SxiLive(i)
    /\ sxi_lip[i].owner = "dfp"
    /\ sxi_lip[i].loc \in {"cil", "ail", "unpinned"}
    /\ sxi_lip' = [sxi_lip EXCEPT ![i].owner = "sxd"]
    /\ UNCHANGED sxirefOther

\* xfs_sxi_item_relog: a done item for the old intent and a new intent join
\* the transaction
SrRelog(i) ==
    /\ SxiLive(i)
    /\ sxi_lip[i].owner = "dfp"
    /\ sxi_lip[i].loc \in {"ail", "unpinned"}
    /\ SxiFree # {}
    /\ sxi_lip' = [sxi_lip EXCEPT ![i].owner = "sxd",
                                  ![SxiNew] = sxi_item_init("relog")]
    /\ UNCHANGED sxirefOther

\* xfs_sxd_item_release: the done item's transaction commits or is
\* cancelled
SrDoneRelease(i) ==
    /\ SxiLive(i)
    /\ sxi_lip[i].owner = "sxd"
    /\ sxi_lip' = [sxi_lip EXCEPT
            ![i] = [xfs_sxi_release(@) EXCEPT !.owner = "none"]]
    /\ UNCHANGED sxirefOther

\* xlog_recover_sxi_commit_pass2 on a record that passes its checks: a new
\* item goes into the AIL and the reference of the log is dropped
SrRecoverPass2 ==
    /\ SxiFree # {}
    /\ sxi_lip' = [sxi_lip EXCEPT
            ![SxiNew] = xfs_sxi_release(
                [sxi_item_init("recovered") EXCEPT
                    !.ail = TRUE, !.loc = "unpinned",
                    !.owner = "recovered"])]
    /\ UNCHANGED sxirefOther

\* xlog_recover_sxd_commit_pass2 finds the item (xlog_recover_release_intent),
\* or recovery is given up and cancels the intents left in the AIL: the
\* item is released through xfs_sxi_item_release
SrRecoverRelease(i) ==
    /\ SxiLive(i)
    /\ sxi_lip[i].owner = "recovered"
    /\ sxi_lip[i].ail
    /\ sxi_lip' = [sxi_lip EXCEPT
            ![i] = [xfs_sxi_release(@) EXCEPT !.owner = "none"]]
    /\ UNCHANGED sxirefOther

\* xfs_sxi_item_recover up to xfs_trans_get_sxd: the done item of the
\* recovery transaction points at the recovered intent
SrRecover(i) ==
    /\ SxiLive(i)
    /\ sxi_lip[i].owner = "recovered"
    /\ sxi_lip[i].ail
    /\ sxi_lip' = [sxi_lip EXCEPT ![i].owner = "sxd"]
    /\ UNCHANGED sxirefOther

SrNext ==
    \/ SrCreateIntent
    \/ \E i \in SxiItems : SrCommit(i)
    \/ \E i \in SxiItems : SrAilInsert(i)
    \/ \E i \in SxiItems, remove \in BOOLEAN : SrUnpin(i, remove)
    \/ \E i \in SxiItems : SrCancel(i)
    \/ \E i \in SxiItems : SrAbort(i)
    \/ \E i \in SxiItems : SrCreateDone(i)
    \/ \E i \in SxiItems : SrRelog(i)
    \/ \E i \in SxiItems : SrDoneRelease(i)
    \/ SrRecoverPass2
    \/ \E i \in SxiItems : SrRecoverRelease(i)
    \/ \E i \in SxiItems : SrRecover(i)

SpecSxiRef == SxiRefInit /\ [][SrNext]_<<sxi_lip, sxirefOther>>

(***************************************************************************)
(* Part VIII properties.                                                   *)
(***************************************************************************)
\* C29: every intent log item is created with two references, one dropped
\* by the log (unpin or cancel of its transaction), one by its done item or
\* the abort path; the count never goes below zero, no item is released
\* after it was freed, and an item is taken off the AIL and freed exactly
\* once, when the last reference is dropped: over commit and done, cancel,
\* relog and recovery with or without a done record.
C29_TwoReferencesFreedOnce ==
    \A i \in SxiItems :
        LET it == sxi_lip[i]
            logref == IF it.loc \in {"tp", "cil", "ail"} THEN 1 ELSE 0
            ownref == IF it.owner # "none" THEN 1 ELSE 0
        IN  it.alloc =>
                /\ ~it.misuse
                /\ it.refcount >= 0
                /\ it.refcount = logref + ownref
                /\ it.freed <=> it.refcount = 0
                /\ it.nfree = IF it.freed THEN 1 ELSE 0
                /\ it.freed => ~it.ail

\* an intent that was relogged, the intent that replaced it and a recovered
\* intent have each been freed
C29_Witness ==
    /\ \E i \in SxiItems :
          sxi_lip[i].origin = "create" /\ sxi_lip[i].freed
    /\ \E i \in SxiItems :
          sxi_lip[i].origin = "relog" /\ sxi_lip[i].freed
    /\ \E i \in SxiItems :
          sxi_lip[i].origin = "recovered" /\ sxi_lip[i].freed

(***************************************************************************)
(* Part IX: operators and actions (loops and the fatal signal).  A turn of *)
(* a loop is one action; the signal can become pending between two turns.  *)
(***************************************************************************)
\* xchk_should_terminate: a fatal signal is pending; *error becomes -EINTR
\* if it was 0
xchk_should_terminate(sig, err) ==
    [stop |-> sig,
     error |-> IF sig /\ err = "OK" THEN "EINTR" ELSE err]

\* the result of a turn: the loop is left or not, the error, the position
CkTurned(done, err, off) == [done |-> done, error |-> err, off |-> off]

\* a turn of the loop of xchk_metapath_ilock_both: the ILOCK of the parent
\* is taken, then xchk_ilock_nowait (got) on the child; without it the
\* parent is unlocked and xchk_should_terminate is asked before delay(1)
xchk_metapath_ilock_both(sig, got, off) ==
    LET t == xchk_should_terminate(sig, "OK")
    IN  IF got THEN CkTurned(TRUE, "OK", off)
        ELSE IF t.stop THEN CkTurned(TRUE, t.error, off)
        ELSE CkTurned(FALSE, "OK", off + 1)

\* a turn of the loop of xrep_rgbitmap: while
\* (!xrep_tempfile_ilock_nowait(sc)) xchk_should_terminate is asked before
\* delay(1)
xrep_rgbitmap(sig, got, off) ==
    LET t == xchk_should_terminate(sig, "OK")
    IN  IF got THEN CkTurned(TRUE, "OK", off)
        ELSE IF t.stop THEN CkTurned(TRUE, t.error, off)
        ELSE CkTurned(FALSE, "OK", off + 1)

\* a turn of the loop of xchk_rtbitmap_check_extents over the mappings of
\* the bitmap file: xchk_should_terminate is asked first, then a mapping
\* is read and off goes behind it
xchk_rtbitmap_check_extents(sig, off, endoff) ==
    LET t == xchk_should_terminate(sig, "OK")
    IN  IF off >= endoff THEN CkTurned(TRUE, "OK", off)
        ELSE IF t.stop THEN CkTurned(TRUE, t.error, off)
        ELSE CkTurned(FALSE, "OK", off + 1)

\* a turn of the loop of xrep_rtbitmap_data_mappings over the mappings of
\* the bitmap file: a mapping is read, an unwritten one is converted and
\* the deferred work finished, and off goes behind it
xrep_rtbitmap_data_mappings(off, len) ==
    IF off >= len THEN CkTurned(TRUE, "OK", off)
    ELSE CkTurned(FALSE, "OK", off + 1)

\* the loops that wait for a lock
CkLockLoops == {"xchk_metapath_ilock_both", "xrep_rgbitmap"}

\* whether the lock can be got in this turn: after ck_len failed attempts
\* the other holder has let go
CkGot == IF ck_off >= ck_len THEN {TRUE} ELSE BOOLEAN

CancelInit ==
    /\ ck_fn \in CkFns
    /\ ck_off = 0
    /\ ck_len \in 1..MaxScan
    /\ ck_sig = FALSE
    /\ ck_pc = "loop"
    /\ ck_error = "OK"
    /\ ck_hist = NoCkHist
    /\ SxiQuiet
    /\ ScrubQuiet
    /\ ScrubvQuiet
    /\ XchgQuiet
    /\ XfileQuiet
    /\ XfbQuiet
    /\ XbmQuiet
    /\ SxiRefQuiet

\* a fatal signal is sent to the task while the loop runs
CkSignal ==
    /\ ck_pc = "loop"
    /\ ~ck_sig
    /\ ck_sig' = TRUE
    /\ UNCHANGED <<ck_fn, ck_off, ck_len, ck_pc, ck_error, ck_hist>>
    /\ UNCHANGED ckOther

\* one turn of the loop of ck_fn
CkTurn(got) ==
    LET res ==
            IF ck_fn = "xchk_metapath_ilock_both"
            THEN xchk_metapath_ilock_both(ck_sig, got, ck_off)
            ELSE IF ck_fn = "xrep_rgbitmap"
            THEN xrep_rgbitmap(ck_sig, got, ck_off)
            ELSE IF ck_fn = "xchk_rtbitmap_check_extents"
            THEN xchk_rtbitmap_check_extents(ck_sig, ck_off, ck_len)
            ELSE xrep_rtbitmap_data_mappings(ck_off, ck_len)
        inloop == ck_fn \in CkLockLoops \/ ck_off < ck_len
    IN  /\ ck_pc = "loop"
        /\ ck_fn \in CkLockLoops \/ got
        /\ ck_off' = res.off
        /\ ck_error' = res.error
        /\ ck_pc' = IF res.done THEN "step_done" ELSE "loop"
        /\ ck_hist' = [begun |-> ck_hist.begun
                                    + (IF ck_sig /\ inloop THEN 1 ELSE 0),
                        turns |-> ck_hist.turns + (IF inloop THEN 1 ELSE 0),
                        locked |-> ck_fn \in CkLockLoops /\ got]
        /\ UNCHANGED <<ck_fn, ck_len, ck_sig>>
        /\ UNCHANGED ckOther

\* xfs_scrub_metadata after sc->ops->scrub or the repair returned: an
\* error goes to out_teardown
CkStepReturns ==
    /\ ck_pc = "step_done"
    /\ ck_pc' = IF ck_error # "OK" THEN "out_teardown" ELSE "evaluate"
    /\ UNCHANGED <<ck_fn, ck_off, ck_len, ck_sig, ck_error, ck_hist>>
    /\ UNCHANGED ckOther

\* xchk_teardown and the return of xfs_scrub_metadata
CkTeardown ==
    /\ ck_pc \in {"evaluate", "out_teardown"}
    /\ ck_pc' = "returned"
    /\ UNCHANGED <<ck_fn, ck_off, ck_len, ck_sig, ck_error, ck_hist>>
    /\ UNCHANGED ckOther

CancelNext ==
    \/ CkSignal
    \/ \E got \in CkGot : CkTurn(got)
    \/ CkStepReturns
    \/ CkTeardown

SpecCancel == CancelInit /\ [][CancelNext]_<<ckVars, ckOther>>

(***************************************************************************)
(* Part IX properties.                                                     *)
(***************************************************************************)
\* C39: every loop asks xchk_should_terminate in each turn: once the fatal
\* signal is pending a loop begins at most one more turn, and a loop that
\* did not get what it waited for ends with EINTR, from where the
\* dispatcher goes to the teardown and not on to the evaluation.
C39_EveryLoopChecksShouldTerminate ==
    /\ ck_hist.begun <= 1
    /\ (ck_pc # "loop" /\ ck_hist.begun >= 1 /\ ~ck_hist.locked) =>
            /\ ck_error = "EINTR"
            /\ ck_pc # "evaluate"

=============================================================================
